---- MODULE Spec2Model ----
(***************************************************************************)
(* Model of the investor dashboard's authorization layer: the three edge   *)
(* functions admin-auth (Authenticate), data-read (Read) and data-write    *)
(* (Write), their rate limiter, credential check and request router, and   *)
(* the storage they call.  One action is one handled request; a handler is *)
(* an operator from the request and the state to the response, the new     *)
(* rate-limit map and the storage calls it issues.                         *)
(***************************************************************************)
EXTENDS Integers, Sequences, FiniteSets, TLC

VARIABLES
    rateLimitsWrite,    \* data-write: const rateLimits = new Map()
    rateLimitsRead,     \* data-read:  const rateLimits = new Map()
    rateLimits,         \* the map of a limiter exercised on its own
    limiterCfg,         \* maxRequests and windowMs given to that limiter
    limiterLog,         \* what the last call to that limiter was and gave
    now,                \* Date.now()
    investor_password,  \* the Credential Records (table investor_password)
    db,                 \* the seven domain tables: table name -> set of rows
    env,                \* Deno.env: ALLOWED_ORIGINS and ALLOWED_DOMAINS, split on ","
    authSeen,           \* Authenticate requests handled, per caller key
    last,               \* the last request handled and its response
    kpi,                \* getKPIs on its own: the rows it was given and its snapshot
    verified,           \* verifyPassword on its own: its arguments and its outcomes
    inflight,           \* requests a running instance is handling at once
    client,             \* the browser: api.js module state, sessionStorage, the gate
    saving              \* the dashboard saving its list of pipeline notes

vars == << rateLimitsWrite, rateLimitsRead, rateLimits, limiterCfg, limiterLog,
           now, investor_password, db, env, authSeen, last, kpi, verified,
           inflight, client, saving >>

\* The state the handling of one request at a time leaves alone.
outside == << kpi, verified, inflight, client, saving >>

-----------------------------------------------------------------------------
(* Absent values.  A header that is not sent, a body field that is not     *)
(* given and a column that is NULL are all NONE.                           *)
NONE == "<none>"

Truthy_Always(v) == TRUE

\* JavaScript truthiness of a string-valued header, field or column.
Truthy(v) == v # NONE /\ v # ""

-----------------------------------------------------------------------------
(* Credential Verifier.  A stored hash is the list of its "$"-separated    *)
(* parts.  Base64 strings are decoded by a table over the strings that     *)
(* occur; PBKDF2 is a stand-in that is injective on the passwords, salts   *)
(* and iteration counts that occur.                                        *)

HASH_LENGTH == 32

NaN == -1

\* parseInt(s, 10): the leading decimal digits, NaN when there are none.
parseInt(s) ==
    CASE s = "100000" -> 100000
      [] s = "12"     -> 12
      [] s = "12abc"  -> 12
      [] s = "0"      -> 0
      [] OTHER        -> NaN

Bytes(first, second, third, len) ==
    [i \in 1..len |-> IF i = 1 THEN first ELSE IF i = 2 THEN second
                      ELSE IF i = 3 THEN third ELSE 0]

\* atob(s) followed by Uint8Array.from: the bytes, or a thrown exception.
atob(s) ==
    CASE s = "AQ==" -> [ok |-> TRUE, bytes |-> <<1>>]
      [] s = "Ag==" -> [ok |-> TRUE, bytes |-> <<2>>]
      [] s = "AQGgAAAAAAAAAAAAAAAAAAAAAAAAAAAAAAAAAAAAAAA="
                    -> [ok |-> TRUE, bytes |-> Bytes(1, 1, 160, 32)]
      [] s = "AgGgAAAAAAAAAAAAAAAAAAAAAAAAAAAAAAAAAAAAAAA="
                    -> [ok |-> TRUE, bytes |-> Bytes(2, 1, 160, 32)]
      [] s = "AQEMAAAAAAAAAAAAAAAAAAAAAAAAAAAAAAAAAAAAAAA="
                    -> [ok |-> TRUE, bytes |-> Bytes(1, 1, 12, 32)]
      [] s = "AQGgAAAAAAAAAAAAAAAAAA=="
                    -> [ok |-> TRUE, bytes |-> Bytes(1, 1, 160, 16)]
      [] OTHER      -> [ok |-> FALSE, bytes |-> <<>>]

PasswordByte(password) ==
    CASE password = "pw1" -> 1
      [] password = "pw2" -> 2
      [] password = "pw3" -> 3
      [] OTHER            -> 9

\* crypto.subtle.deriveBits({PBKDF2, salt, iterations, SHA-256}, key, 32 * 8):
\* 32 bytes fixed by the password, the salt and the iteration count; it
\* throws when the iteration count is not positive.
deriveBits(password, salt, iterations) ==
    IF iterations <= 0
    THEN [ok |-> FALSE, bytes |-> <<>>]
    ELSE [ok |-> TRUE,
          bytes |-> Bytes(PasswordByte(password),
                          IF Len(salt) > 0 THEN salt[1] ELSE 0,
                          iterations % 256, HASH_LENGTH)]

\* diff |= hashBytes[i] ^ storedHashBytes[i] over every i; diff === 0.
ConstantTimeEqual(a, b) == ~ \E i \in 1..Len(a) : a[i] # b[i]

verifyPassword(password, storedHash) ==
    IF Len(storedHash) # 3 THEN FALSE
    ELSE LET iterations == parseInt(storedHash[1])
             salt == atob(storedHash[2])
             stored == atob(storedHash[3])
             derived == deriveBits(password, salt.bytes, iterations)
         IN  IF iterations = NaN THEN FALSE
             ELSE IF ~salt.ok \/ ~stored.ok \/ ~derived.ok THEN FALSE
             ELSE IF Len(derived.bytes) # Len(stored.bytes) THEN FALSE
             ELSE ConstantTimeEqual(derived.bytes, stored.bytes)

\* The hash the hash-password script stores for a password (salt <<1>>).
HashOf(password) ==
    CASE password = "pw1"
           -> <<"100000", "AQ==", "AQGgAAAAAAAAAAAAAAAAAAAAAAAAAAAAAAAAAAAAAAA=">>
      [] password = "pw2"
           -> <<"100000", "AQ==", "AgGgAAAAAAAAAAAAAAAAAAAAAAAAAAAAAAAAAAAAAAA=">>

NoHash == <<>>

-----------------------------------------------------------------------------
(* Rate Limiter.  A map is a function from the keys that have an entry to  *)
(* {count, resetTime}.                                                     *)

checkRateLimit_ExtendOnReject(map, key, maxRequests, windowMs, t) ==
    IF key \notin DOMAIN map \/ t > map[key].resetTime
    THEN [allowed |-> TRUE,
          map |-> [k \in DOMAIN map \cup {key} |->
                     IF k = key THEN [count |-> 1, resetTime |-> t + windowMs]
                     ELSE map[k]]]
    ELSE IF map[key].count >= maxRequests
    THEN [allowed |-> FALSE, map |-> [map EXCEPT ![key].resetTime = t + windowMs]]
    ELSE [allowed |-> TRUE,
          map |-> [map EXCEPT ![key].count = @ + 1]]

checkRateLimit_NoIncrement(map, key, maxRequests, windowMs, t) ==
    IF key \notin DOMAIN map \/ t > map[key].resetTime
    THEN [allowed |-> TRUE,
          map |-> [k \in DOMAIN map \cup {key} |->
                     IF k = key THEN [count |-> 1, resetTime |-> t + windowMs]
                     ELSE map[k]]]
    ELSE IF map[key].count >= maxRequests
    THEN [allowed |-> FALSE, map |-> map]
    ELSE [allowed |-> TRUE, map |-> map]

checkRateLimit_OffByOne(map, key, maxRequests, windowMs, t) ==
    IF key \notin DOMAIN map \/ t > map[key].resetTime
    THEN [allowed |-> TRUE,
          map |-> [k \in DOMAIN map \cup {key} |->
                     IF k = key THEN [count |-> 1, resetTime |-> t + windowMs]
                     ELSE map[k]]]
    ELSE IF map[key].count > maxRequests
    THEN [allowed |-> FALSE, map |-> map]
    ELSE [allowed |-> TRUE,
          map |-> [map EXCEPT ![key].count = @ + 1]]

checkRateLimit(map, key, maxRequests, windowMs, t) ==
    IF key \notin DOMAIN map \/ t > map[key].resetTime
    THEN [allowed |-> TRUE,
          map |-> [k \in DOMAIN map \cup {key} |->
                     IF k = key THEN [count |-> 1, resetTime |-> t + windowMs]
                     ELSE map[k]]]
    ELSE IF map[key].count >= maxRequests
    THEN [allowed |-> FALSE, map |-> map]
    ELSE [allowed |-> TRUE,
          map |-> [map EXCEPT ![key].count = @ + 1]]

EmptyMap == <<>>

-----------------------------------------------------------------------------
(* Storage.  A row is a function from the columns it has a value for to    *)
(* the values; a column that is NULL is absent from the row.               *)

TableNames ==
    {"cash_position", "monthly_burn", "customer", "employee_count",
     "pipeline_client", "quarter_goal", "pipeline_note"}

\* The columns of each table (CREATE TABLE statements; pipeline_note as the
\* dashboard writes it).
TableColumns(table) ==
    CASE table = "cash_position"   -> {"id", "amount", "date", "notes", "created_at"}
      [] table = "monthly_burn"    -> {"id", "amount", "month", "notes", "created_at"}
      [] table = "customer"        -> {"id", "name", "is_pilot", "contract_value", "arr",
                                       "start_date", "status", "created_at"}
      [] table = "employee_count"  -> {"id", "count", "date", "is_full_time", "created_at"}
      [] table = "pipeline_client" -> {"id", "name", "segment", "stage",
                                       "estimated_contract_size", "engagement_start_date",
                                       "status", "notes", "created_at"}
      [] table = "quarter_goal"    -> {"id", "name", "target_value", "current_value",
                                       "quarter", "year", "metric_type", "order",
                                       "created_at"}
      [] table = "pipeline_note"   -> {"id", "content", "order"}
      [] table = "investor_password"
                                   -> {"id", "password", "password_hash",
                                       "is_artemis_management", "name", "created_at"}
      [] OTHER                     -> {}

\* The NOT NULL columns without a default.
NotNullColumns(table) ==
    CASE table = "cash_position"   -> {"amount", "date"}
      [] table = "monthly_burn"    -> {"amount", "month"}
      [] table = "customer"        -> {"name", "is_pilot"}
      [] table = "employee_count"  -> {"count", "date", "is_full_time"}
      [] table = "pipeline_client" -> {"name", "segment", "stage", "engagement_start_date"}
      [] table = "quarter_goal"    -> {"name", "target_value", "quarter", "year"}
      [] OTHER                     -> {}

\* Identifiers gen_random_uuid() can give.
IdPool == {"r1", "r2", "r3"}

Restrict(f, S) == [x \in S |-> f[x]]

Extend(f, x, v) == [y \in DOMAIN f \cup {x} |-> IF y = x THEN v ELSE f[y]]

Merge(f, g) == [y \in DOMAIN f \cup DOMAIN g |-> IF y \in DOMAIN g THEN g[y] ELSE f[y]]

RECURSIVE SortBy(_, _, _)
\* ORDER BY col: the rows as a list, descending or ascending by col.
SortBy(rows, col, ascending) ==
    IF rows = {} THEN <<>>
    ELSE LET head == CHOOSE r \in rows : \A q \in rows :
                        IF ascending THEN r[col] <= q[col] ELSE r[col] >= q[col]
         IN  <<head>> \o SortBy(rows \ {head}, col, ascending)

RECURSIVE SetToSeq(_)
SetToSeq(rows) ==
    IF rows = {} THEN <<>>
    ELSE LET head == CHOOSE r \in rows : TRUE
         IN  <<head>> \o SetToSeq(rows \ {head})

(* A storage call is                                                       *)
(*   [verb, table, data, filters, order]                                   *)
(* verb: "select", "insert", "update" or "delete"; data: the object given  *)
(* to insert or update; filters: the eq(column, value) predicates, as a    *)
(* function from column to value; order: the ORDER BY column or NONE.      *)
Call(verb, table, data, filters, order) ==
    [verb |-> verb, table |-> table, data |-> data, filters |-> filters, order |-> order]

\* Every column name the call hands to storage.
CallColumns(call) ==
    DOMAIN call.data \cup DOMAIN call.filters
        \cup (IF call.order = NONE THEN {} ELSE {call.order})

Matching(rows, filters) ==
    {r \in rows : \A c \in DOMAIN filters : c \in DOMAIN r /\ r[c] = filters[c]}

\* What storage answers to a call on a domain table, and the table after
\* it: [error, rows, table].  fail: the call is hit by a storage failure.
Execute(call, rows, fail) ==
    LET bad == [error |-> TRUE, rows |-> <<>>, table |-> rows]
        cols == TableColumns(call.table)
    IN
    IF fail \/ ~(CallColumns(call) \subseteq cols) THEN bad
    ELSE IF call.verb = "select" THEN
        LET hit == Matching(rows, call.filters)
        IN  [error |-> FALSE,
             rows |-> IF call.order = NONE THEN SetToSeq(hit)
                      ELSE SortBy(hit, call.order, call.order = "order"),
             table |-> rows]
    ELSE IF call.verb = "insert" THEN
        LET used == {r["id"] : r \in rows}
            row == IF "id" \in DOMAIN call.data THEN call.data
                   ELSE Extend(call.data, "id", CHOOSE i \in IdPool : i \notin used)
        IN  IF row["id"] \in used \/ ~(NotNullColumns(call.table) \subseteq DOMAIN row)
            THEN bad
            ELSE [error |-> FALSE, rows |-> <<row>>, table |-> rows \cup {row}]
    ELSE IF call.verb = "update" THEN
        LET hit == Matching(rows, call.filters)
            new == {Merge(r, call.data) : r \in hit}
        IN  [error |-> FALSE, rows |-> SetToSeq(new), table |-> (rows \ hit) \cup new]
    ELSE \* delete
        [error |-> FALSE, rows |-> <<>>, table |-> rows \ Matching(rows, call.filters)]

-----------------------------------------------------------------------------
(* Requests and responses.                                                 *)
(* A request is [method, origin, referer, xff, xri, adminPassword, body]:  *)
(* xff and xri are the x-forwarded-for and x-real-ip headers and           *)
(* adminPassword the x-admin-password header.  The body is                 *)
(*   [ok, operation, table, id, hasData, data, hasFilters, filters,        *)
(*    password]                                                            *)
(* ok: req.json() gives an object; hasData / hasFilters: the field is      *)
(* given and truthy; data and filters: functions from field name to value. *)

Body(operation, table, id, hasData, data, hasFilters, filters) ==
    [ok |-> TRUE, operation |-> operation, table |-> table, id |-> id,
     hasData |-> hasData, data |-> data, hasFilters |-> hasFilters,
     filters |-> filters, password |-> NONE]

AuthBody(password) ==
    [ok |-> TRUE, operation |-> NONE, table |-> NONE, id |-> NONE,
     hasData |-> FALSE, data |-> <<>>, hasFilters |-> FALSE,
     filters |-> <<>>, password |-> password]

UnparsableBody ==
    [ok |-> FALSE, operation |-> NONE, table |-> NONE, id |-> NONE,
     hasData |-> FALSE, data |-> <<>>, hasFilters |-> FALSE,
     filters |-> <<>>, password |-> NONE]

Request(method, origin, xff, xri, adminPassword, body) ==
    [method |-> method, origin |-> origin, referer |-> NONE, xff |-> xff,
     xri |-> xri, adminPassword |-> adminPassword, body |-> body]

Response_Status400(status, error, reached, calls, rows, allowOrigin) ==
    [status |-> 400, error |-> error, details |-> NONE, reached |-> reached,
     calls |-> calls, rows |-> rows, authenticated |-> FALSE,
     isArtemisManagement |-> FALSE, allowOrigin |-> allowOrigin]

(* A response is [status, error, details, reached, calls, rows,            *)
(* authenticated, isArtemisManagement, allowOrigin].  reached: the steps   *)
(* of the handler the request got to; calls: the storage calls issued, in  *)
(* order; rows: the data of the body.                                      *)
Response(status, error, reached, calls, rows, allowOrigin) ==
    [status |-> status, error |-> error, details |-> NONE, reached |-> reached,
     calls |-> calls, rows |-> rows, authenticated |-> FALSE,
     isArtemisManagement |-> FALSE, allowOrigin |-> allowOrigin]

\* origin.includes(o): o is a substring of origin.
Includes(s, sub) ==
    \/ sub = ""
    \/ s = sub
    \/ <<s, sub>> \in
         { <<"https://example.com", "example.com">>,
           <<"http://example.com", "example.com">>,
           <<"https://sub.example.com", "example.com">>,
           <<"https://example.com.evil.com", "example.com">>,
           <<"https://example.com/login", "example.com">>,
           <<"https://evil.com", "evil.com">> }

Range(seq) == {seq[i] : i \in 1..Len(seq)}

\* data-read and data-write: getCorsHeaders(origin), Access-Control-Allow-Origin.
getCorsHeaders(origin, allowedOrigins) ==
    IF Len(allowedOrigins) = 0
    THEN (IF Truthy(origin) THEN origin ELSE "*")
    ELSE IF Truthy(origin) /\ \E o \in Range(allowedOrigins) : Includes(origin, o)
    THEN origin
    ELSE "null"

\* admin-auth: getCorsHeaders(origin, allowedDomains), Access-Control-Allow-Origin.
getCorsHeadersAuth(origin, allowedDomains) ==
    IF Truthy(origin) THEN origin ELSE "*"

IsPreflight_Never(req) == FALSE

\* req.method === "OPTIONS"
IsPreflight(req) == req.method = "OPTIONS"

ClientKey_RealIpFirst(req) ==
    IF Truthy(req.xri) THEN req.xri
    ELSE IF Truthy(req.xff) THEN req.xff
    ELSE "unknown"

\* req.headers.get("x-forwarded-for") || req.headers.get("x-real-ip") || "unknown"
ClientKey(req) ==
    IF Truthy(req.xff) THEN req.xff
    ELSE IF Truthy(req.xri) THEN req.xri
    ELSE "unknown"

-----------------------------------------------------------------------------
(* Auth Gate of data-write and data-read.                                  *)

authenticateAdmin_AnyPassword(password, passwords, error) ==
    ~error /\ passwords # {}

\* data-write: authenticateAdmin.  passwords: the rows of investor_password;
\* error: the select failed.
authenticateAdmin(password, passwords, error) ==
    IF error THEN FALSE
    ELSE \E user \in passwords :
            IF Len(user.password_hash) > 0
            THEN verifyPassword(password, user.password_hash)
            ELSE Truthy(user.password) /\ user.password = password

authenticateAdminRead_Always(password, passwords, error) == TRUE

\* data-read: authenticateAdmin, which selects password_hash alone.
authenticateAdminRead(password, passwords, error) ==
    IF error THEN FALSE
    ELSE \E user \in passwords :
            /\ Len(user.password_hash) > 0
            /\ verifyPassword(password, user.password_hash)

\* supabase.from("investor_password").select(...)
CredentialLookup == Call("select", "investor_password", <<>>, <<>>, NONE)

-----------------------------------------------------------------------------
(* data-write (the Write endpoint).                                        *)

WRITE_MAX_REQUESTS == 30

READ_MAX_REQUESTS == 60

WINDOW_MS == 60000

allowedOperations == {"create", "update", "delete"}

\* data-write: allowedTables
allowedTables ==
    {"cash_position", "monthly_burn", "customer", "employee_count",
     "pipeline_client", "quarter_goal"}

\* data-write: allowedFields
allowedFields(table) ==
    CASE table = "cash_position"   -> {"id", "amount", "date", "notes"}
      [] table = "monthly_burn"    -> {"id", "amount", "month", "notes"}
      [] table = "customer"        -> {"id", "name", "is_pilot", "contract_value", "arr",
                                       "start_date", "status"}
      [] table = "employee_count"  -> {"id", "count", "date", "is_full_time"}
      [] table = "pipeline_client" -> {"id", "name", "segment", "stage",
                                       "estimated_contract_size", "engagement_start_date",
                                       "status", "notes"}
      [] table = "quarter_goal"    -> {"id", "name", "target_value", "current_value",
                                       "quarter", "year", "metric_type", "order"}
      [] OTHER                     -> {}

whitelistedDataCreate_All(table, data) == data

\* create: for (const field of tableFields) if (data[field] !== undefined) ...
whitelistedDataCreate(table, data) ==
    Restrict(data, allowedFields(table) \cap DOMAIN data)

whitelistedDataUpdate_All(table, data) == data

whitelistedDataUpdate_KeepId(table, data) ==
    Restrict(data, allowedFields(table) \cap DOMAIN data)

\* update: ... if (field !== "id" && data[field] !== undefined) ...
whitelistedDataUpdate(table, data) ==
    Restrict(data, (allowedFields(table) \ {"id"}) \cap DOMAIN data)

IdFilter(id) == [c \in {"id"} |-> id]

(* The handler: [resp, map, table].  map: the rate-limit map after the     *)
(* request; table: the rows of the addressed table after it.  rows: the    *)
(* rows of the table the body names (none when it names no domain table);  *)
(* fail: "lookup" when the credential select fails, "query" when the       *)
(* domain-table call fails, "none" otherwise.                              *)
dataWrite(req, map, t, passwords, rows, allowedOrigins, fail) ==
    LET allowOrigin == getCorsHeaders(req.origin, allowedOrigins)
        Reply(status, error, reached, calls, data) ==
            Response(status, error, reached, calls, data, allowOrigin)
        limit == checkRateLimit(map, ClientKey(req), WRITE_MAX_REQUESTS, WINDOW_MS, t)
        b == req.body
        gate == {"ratelimit", "credential", "lookup"}
        routed == gate \cup {"parse", "operation", "table"}
        created == whitelistedDataCreate(b.table, b.data)
        updated == whitelistedDataUpdate(b.table, b.data)
        call == CASE b.operation = "create" -> Call("insert", b.table, created, <<>>, NONE)
                  [] b.operation = "update" -> Call("update", b.table, updated, IdFilter(b.id), NONE)
                  [] OTHER -> Call("delete", b.table, <<>>, IdFilter(b.id), NONE)
        result == Execute(call, rows, fail = "query")
        \* .select().single(): an error unless exactly one row comes back
        single == result.error \/ Len(result.rows) # 1
        failed == IF b.operation = "delete" THEN result.error ELSE single
        stored == routed \cup {"fields", "storage"}
    IN
    IF IsPreflight(req)
    THEN [resp |-> Reply(200, NONE, {}, <<>>, <<>>), map |-> map, table |-> rows]
    ELSE IF ~limit.allowed
    THEN [resp |-> Reply(429, "Too many requests", {"ratelimit"}, <<>>, <<>>),
          map |-> limit.map, table |-> rows]
    ELSE IF ~Truthy(req.adminPassword)
    THEN [resp |-> Reply(401, "Authentication required", {"ratelimit", "credential"},
                         <<>>, <<>>),
          map |-> limit.map, table |-> rows]
    ELSE IF ~authenticateAdmin(req.adminPassword, passwords, fail = "lookup")
    THEN [resp |-> Reply(401, "Invalid credentials", gate, <<CredentialLookup>>, <<>>),
          map |-> limit.map, table |-> rows]
    ELSE IF ~b.ok
    THEN [resp |-> Reply(500, "Internal server error", gate \cup {"parse"},
                         <<CredentialLookup>>, <<>>),
          map |-> limit.map, table |-> rows]
    ELSE IF b.operation \notin allowedOperations
    THEN [resp |-> Reply(400, "Invalid operation", gate \cup {"parse", "operation"},
                         <<CredentialLookup>>, <<>>),
          map |-> limit.map, table |-> rows]
    ELSE IF ~Truthy(b.table) \/ b.table \notin allowedTables
    THEN [resp |-> Reply(400, "Invalid table", routed, <<CredentialLookup>>, <<>>),
          map |-> limit.map, table |-> rows]
    ELSE IF b.operation = "create" /\ ~b.hasData
    THEN [resp |-> Reply(400, "Missing data", routed, <<CredentialLookup>>, <<>>),
          map |-> limit.map, table |-> rows]
    ELSE IF b.operation = "create" /\ DOMAIN created = {}
    THEN [resp |-> Reply(400, "No valid fields provided", routed \cup {"fields"},
                         <<CredentialLookup>>, <<>>),
          map |-> limit.map, table |-> rows]
    ELSE IF b.operation = "update" /\ (~Truthy(b.id) \/ ~b.hasData)
    THEN [resp |-> Reply(400, "Missing id or data", routed, <<CredentialLookup>>, <<>>),
          map |-> limit.map, table |-> rows]
    ELSE IF b.operation = "update" /\ DOMAIN updated = {}
    THEN [resp |-> Reply(400, "No valid fields to update", routed \cup {"fields"},
                         <<CredentialLookup>>, <<>>),
          map |-> limit.map, table |-> rows]
    ELSE IF b.operation = "delete" /\ ~Truthy(b.id)
    THEN [resp |-> Reply(400, "Missing id", routed, <<CredentialLookup>>, <<>>),
          map |-> limit.map, table |-> rows]
    ELSE IF failed
    THEN [resp |-> Reply(500, "Database operation failed", stored,
                         <<CredentialLookup, call>>, <<>>),
          map |-> limit.map, table |-> rows]
    ELSE [resp |-> Reply(200, NONE, stored, <<CredentialLookup, call>>, result.rows),
          map |-> limit.map, table |-> result.table]

-----------------------------------------------------------------------------
(* data-read (the Read endpoint).                                          *)

allowedOperationsRead == {"getKPIs", "list", "get"}

\* data-read: allowedTables
allowedTablesRead ==
    {"cash_position", "monthly_burn", "customer", "employee_count",
     "pipeline_client", "quarter_goal", "pipeline_note"}

\* list: "Apply default ordering"
DefaultOrder(table, hasFilters, filters) ==
    CASE table = "cash_position"  -> "date"
      [] table = "monthly_burn"   -> "month"
      [] table = "employee_count" -> "date"
      [] table = "quarter_goal" /\ hasFilters /\ "quarter" \in DOMAIN filters
                                /\ "year" \in DOMAIN filters
                                  -> "order"
      [] table = "pipeline_note"  -> "order"
      [] OTHER                    -> NONE

\* getKPIs: the six selects, in the order they are issued.
KpiCalls ==
    << Call("select", "cash_position", <<>>, <<>>, "date"),
       Call("select", "monthly_burn", <<>>, <<>>, "month"),
       Call("select", "customer", <<>>, <<>>, NONE),
       Call("select", "employee_count", <<>>, <<>>, "date"),
       Call("select", "pipeline_client", <<>>, <<>>, NONE),
       Call("select", "pipeline_note", <<>>, <<>>, "order") >>

\* row[col], undefined when the column is NULL.
Get(row, col) == IF col \in DOMAIN row THEN row[col] ELSE NONE

\* row[col] || 0 for a number column; a column that is NULL is no key of
\* the row.
OrZero(row, col) == IF col \in DOMAIN row THEN row[col] ELSE 0

\* list.reduce((sum, x) => sum + (x[col] || 0), 0)
SumOf(list, col) ==
    LET RECURSIVE Sum(_)
        Sum(i) == IF i = 0 THEN 0 ELSE Sum(i - 1) + OrZero(list[i], col)
    IN  Sum(Len(list))

\* data?.[0], the empty object standing for undefined
First(list) == IF Len(list) > 0 THEN list[1] ELSE <<>>

\* .limit(n)
Limit(list, n) == IF Len(list) > n THEN SubSeq(list, 1, n) ELSE list

\* 1000 * 60 * 60 * 24
DAY_MS == 86400000

\* employeeCounts?.filter(is_full_time === flag).sort(by date, descending)[0]?.count || 0
\* (the sort is stable: of the rows with the latest date the first one given).
LatestCount(employeeCounts, flag) ==
    LET some == SelectSeq(employeeCounts, LAMBDA ec : Get(ec, "is_full_time") = flag)
        top  == CHOOSE i \in 1..Len(some) :
                    /\ \A j \in 1..Len(some) : some[i]["date"] >= some[j]["date"]
                    /\ \A j \in 1..(i - 1) : some[j]["date"] < some[i]["date"]
    IN  IF Len(some) = 0 THEN 0 ELSE OrZero(some[top], "count")

\* Dates are day numbers; t is Date.now() in milliseconds.
formatPipelineClient(p, t) ==
    [id |-> Get(p, "id"), name |-> Get(p, "name"), segment |-> Get(p, "segment"),
     stage |-> IF Get(p, "stage") \in {NONE, ""} THEN "initial_meeting" ELSE p["stage"],
     estimatedContractSize |-> OrZero(p, "estimated_contract_size"),
     engagementStartDate |-> Get(p, "engagement_start_date"),
     status |-> Get(p, "status"), notes |-> Get(p, "notes"),
     daysSinceEngagement |->
        IF "engagement_start_date" \notin DOMAIN p THEN 0
        ELSE (t - p["engagement_start_date"] * DAY_MS) \div DAY_MS]

segments == <<"smb", "mid_market", "large_cap">>

stages == <<"initial_meeting", "pilot_scoping", "pilot", "contracting">>

pipelineMatrix_StageOnly(formattedClients) ==
    [segment \in Range(segments) |->
        [stage \in Range(stages) |->
            LET clients == SelectSeq(formattedClients, LAMBDA p : p.stage = stage)
            IN  [count |-> Len(clients), clients |-> clients,
                 totalValue |-> SumOf(clients, "estimatedContractSize")]]]

\* segments.forEach((segment) => ... stages.forEach((stage) => ...))
pipelineMatrix(formattedClients) ==
    [segment \in Range(segments) |->
        [stage \in Range(stages) |->
            LET clients == SelectSeq(formattedClients,
                                     LAMBDA p : p.segment = segment /\ p.stage = stage)
            IN  [count |-> Len(clients), clients |-> clients,
                 totalValue |-> SumOf(clients, "estimatedContractSize")]]]

totalARR_FirstOnly(customers) == OrZero(First(customers), "arr")

totalARR(customers) == SumOf(customers, "arr")

totalContractValue(customers) == SumOf(customers, "contract_value")

\* getKPIs: the snapshot computed from the data of the six selects (an
\* empty list where data is null).
getKPIs(cashPositions, monthlyBurns, customers, employeeCounts, pipelineClients, pipelineNotes, t) ==
    LET formattedClients == [i \in 1..Len(pipelineClients) |->
                                formatPipelineClient(pipelineClients[i], t)]
    IN  [cashPosition |-> OrZero(First(cashPositions), "amount"),
         cashPositionDate |-> Get(First(cashPositions), "date"),
         monthlyBurn |-> OrZero(First(monthlyBurns), "amount"),
         monthlyBurnMonth |-> Get(First(monthlyBurns), "month"),
         customerCount |-> Len(customers),
         totalARR |-> totalARR(customers),
         totalContractValue |-> totalContractValue(customers),
         fullTimeEmployeeCount |-> LatestCount(employeeCounts, TRUE),
         contractorCount |-> LatestCount(employeeCounts, FALSE),
         customers |-> [i \in 1..Len(customers) |->
                          LET c == customers[i]
                          IN  [id |-> Get(c, "id"), name |-> Get(c, "name"),
                               is_pilot |-> Get(c, "is_pilot"),
                               contract_value |-> OrZero(c, "contract_value"),
                               arr |-> OrZero(c, "arr"),
                               start_date |-> Get(c, "start_date"),
                               status |-> Get(c, "status")]],
         pipelineClients |-> formattedClients,
         pipelineMatrix |-> pipelineMatrix(formattedClients),
         pipelineNotes |-> pipelineNotes]

\* The handler: [resp, map].  tables: table name -> rows.
dataRead(req, map, t, passwords, tables, allowedOrigins, fail) ==
    LET allowOrigin == getCorsHeaders(req.origin, allowedOrigins)
        Reply(status, error, reached, calls, data) ==
            Response(status, error, reached, calls, data, allowOrigin)
        limit == checkRateLimit(map, ClientKey(req), READ_MAX_REQUESTS, WINDOW_MS, t)
        b == req.body
        gate == {"ratelimit", "credential", "lookup"}
        routed == gate \cup {"parse", "operation"}
        listCall == Call("select", b.table, <<>>,
                         IF b.hasFilters THEN b.filters ELSE <<>>,
                         DefaultOrder(b.table, b.hasFilters, b.filters))
        listed == Execute(listCall, tables[b.table], fail = "query")
        getCall == Call("select", b.table, <<>>, IdFilter(b.id), NONE)
        got == Execute(getCall, tables[b.table], fail = "query")
        \* the data of the six selects of getKPIs: null, here the empty list,
        \* when the select fails
        data == [i \in 1..Len(KpiCalls) |->
                    LET out == Execute(KpiCalls[i], tables[KpiCalls[i].table],
                                       fail = "query")
                    IN  IF out.error THEN <<>> ELSE out.rows]
    IN
    IF IsPreflight(req)
    THEN [resp |-> Reply(200, NONE, {}, <<>>, <<>>), map |-> map]
    ELSE IF ~limit.allowed
    THEN [resp |-> Reply(429, "Too many requests", {"ratelimit"}, <<>>, <<>>),
          map |-> limit.map]
    ELSE IF ~Truthy(req.adminPassword)
    THEN [resp |-> Reply(401, "Authentication required", {"ratelimit", "credential"},
                         <<>>, <<>>),
          map |-> limit.map]
    ELSE IF ~authenticateAdminRead(req.adminPassword, passwords, fail = "lookup")
    THEN [resp |-> Reply(401, "Invalid credentials", gate, <<CredentialLookup>>, <<>>),
          map |-> limit.map]
    ELSE IF ~b.ok
    THEN [resp |-> Reply(500, "Internal server error", gate \cup {"parse"},
                         <<CredentialLookup>>, <<>>),
          map |-> limit.map]
    ELSE IF b.operation \notin allowedOperationsRead
    THEN [resp |-> Reply(400, "Invalid operation", routed, <<CredentialLookup>>, <<>>),
          map |-> limit.map]
    ELSE IF b.operation = "getKPIs"
    THEN [resp |-> Reply(200, NONE, routed \cup {"storage"},
                         <<CredentialLookup>> \o KpiCalls,
                         <<getKPIs(Limit(data[1], 1), Limit(data[2], 1), data[3],
                                   data[4], data[5], data[6], t)>>),
          map |-> limit.map]
    ELSE IF b.operation = "list" /\ (~Truthy(b.table) \/ b.table \notin allowedTablesRead)
    THEN [resp |-> Reply(400, "Invalid table", routed \cup {"table"},
                         <<CredentialLookup>>, <<>>),
          map |-> limit.map]
    ELSE IF b.operation = "list" /\ listed.error
    THEN [resp |-> Reply(500, "Database operation failed", routed \cup {"table", "storage"},
                         <<CredentialLookup, listCall>>, <<>>),
          map |-> limit.map]
    ELSE IF b.operation = "list"
    THEN [resp |-> Reply(200, NONE, routed \cup {"table", "storage"},
                         <<CredentialLookup, listCall>>, listed.rows),
          map |-> limit.map]
    ELSE IF ~Truthy(b.table) \/ b.table \notin allowedTablesRead \/ ~Truthy(b.id)
    THEN [resp |-> Reply(400, "Invalid table or missing id", routed \cup {"table"},
                         <<CredentialLookup>>, <<>>),
          map |-> limit.map]
    ELSE IF got.error \/ Len(got.rows) # 1
    THEN [resp |-> Reply(404, "Record not found", routed \cup {"table", "storage"},
                         <<CredentialLookup, getCall>>, <<>>),
          map |-> limit.map]
    ELSE [resp |-> Reply(200, NONE, routed \cup {"table", "storage"},
                         <<CredentialLookup, getCall>>, got.rows),
          map |-> limit.map]

-----------------------------------------------------------------------------
(* admin-auth (the Authenticate endpoint).                                 *)

\* .from("investor_password").select("*").eq("password", password).maybeSingle():
\* an error when the select fails or more than one row matches.
PasswordQuery(password, passwords, fail) ==
    LET hit == {u \in passwords : u.password = password}
    IN  [error |-> fail \/ Cardinality(hit) > 1, rows |-> hit]

\* The handler: [resp].  It keeps no rate-limit map.
adminAuth(req, passwords, allowedDomains, fail) ==
    LET allowOrigin == getCorsHeadersAuth(req.origin, allowedDomains)
        Reply(status, error, reached, calls, data) ==
            Response(status, error, reached, calls, data, allowOrigin)
        isAllowed ==
            \/ Len(allowedDomains) = 0
            \/ Truthy(req.origin) /\ \E d \in Range(allowedDomains) : Includes(req.origin, d)
            \/ Truthy(req.referer) /\ \E d \in Range(allowedDomains) : Includes(req.referer, d)
        b == req.body
        query == Call("select", "investor_password", <<>>,
                      [c \in {"password"} |-> b.password], NONE)
        found == PasswordQuery(b.password, passwords, fail = "lookup")
        user == CHOOSE u \in found.rows : TRUE
    IN
    IF IsPreflight(req)
    THEN [resp |-> Response(200, NONE, {}, <<>>, <<>>,
                            IF Truthy(req.origin) THEN req.origin ELSE "*")]
    ELSE IF ~isAllowed /\ Len(allowedDomains) > 0
    THEN [resp |-> Reply(403, "Domain not allowed", {"origin"}, <<>>, <<>>)]
    ELSE IF ~b.ok
    THEN [resp |-> Reply(400, "Invalid request body", {"origin", "parse"}, <<>>, <<>>)]
    ELSE IF ~Truthy(b.password)
    THEN [resp |-> Reply(400, "Password is required", {"origin", "parse"}, <<>>, <<>>)]
    ELSE IF found.error
    THEN [resp |-> [Reply(500, "Database error", {"origin", "parse", "lookup"},
                          <<query>>, <<>>)
                    EXCEPT !.details = "error.message"]]
    ELSE IF found.rows = {}
    THEN [resp |-> Reply(401, "Invalid password", {"origin", "parse", "lookup"},
                         <<query, CredentialLookup>>, <<>>)]
    ELSE [resp |-> [Reply(200, NONE, {"origin", "parse", "lookup"}, <<query>>, <<>>)
                    EXCEPT !.authenticated = TRUE,
                           !.isArtemisManagement = user.is_artemis_management]]

-----------------------------------------------------------------------------
(* Bounds of the model and the inputs the requests are drawn from.         *)

MaxRows == 1            \* rows the domain tables hold in total

Headroom == 2           \* requests the callers' budgets still allow at the start

MaxAuthRequests == 11   \* Authenticate requests followed per caller key

MaxLimiterTime == 3002  \* the clock of that limiter stops here

MaxBudget == 3          \* largest maxRequests the limiter is exercised with

MaxCalls == 5           \* calls followed per key and window of that limiter

\* is_artemis_management: true for the record named "management".
Record(id, password, hash, management) ==
    [id |-> id, name |-> IF management THEN "management" ELSE "investor",
     password |-> password, password_hash |-> hash,
     is_artemis_management |-> management]

\* Contents of investor_password: none; a legacy plaintext record; a
\* migrated record that kept its plaintext; a migrated record whose
\* plaintext column was overwritten; a management record with a hash next
\* to a plaintext investor record; two records sharing a password.
WriteCredentialSets ==
    { {},
      {Record("u1", "pw1", NoHash, TRUE)},
      {Record("u1", "pw1", HashOf("pw1"), TRUE), Record("u2", "pw2", NoHash, FALSE)} }

CredentialSets ==
    { {},
      {Record("u1", "pw1", NoHash, TRUE)},
      {Record("u1", "pw1", HashOf("pw1"), TRUE)},
      {Record("u1", "migrated", HashOf("pw1"), FALSE)},
      {Record("u1", "pw1", HashOf("pw1"), TRUE), Record("u2", "pw2", NoHash, FALSE)},
      {Record("u1", "pw1", NoHash, TRUE), Record("u2", "pw1", NoHash, FALSE)} }

\* A password with one byte flipped; no record holds one.
Altered(password) ==
    CASE password = "pw1" -> "pw1~"
      [] password = "pw2" -> "pw2~"
      [] OTHER            -> "~"

Passwords == {"pw1", "pw2"}

\* x-admin-password headers: not sent, empty, the passwords, altered ones.
CredentialHeaders == {NONE, ""} \cup Passwords \cup {Altered(p) : p \in Passwords}

\* A create payload with every NOT NULL column of the table and a field
\* that is no column.
Payload(table) ==
    CASE table = "cash_position"   -> [amount |-> 500, date |-> 3, hacked_field |-> "x"]
      [] table = "monthly_burn"    -> [amount |-> 40, month |-> 3, hacked_field |-> "x"]
      [] table = "customer"        -> [name |-> "Acme", is_pilot |-> FALSE, arr |-> 100,
                                       hacked_field |-> "x"]
      [] table = "employee_count"  -> [count |-> 7, date |-> 3, is_full_time |-> TRUE,
                                       hacked_field |-> "x"]
      [] table = "pipeline_client" -> [name |-> "Lead", segment |-> "smb",
                                       stage |-> "pilot", engagement_start_date |-> 2,
                                       hacked_field |-> "x"]
      [] table = "quarter_goal"    -> [name |-> "Goal", target_value |-> 10,
                                       quarter |-> 1, year |-> 2025, hacked_field |-> "x"]
      [] table = "pipeline_note"   -> [content |-> "note", order |-> 0,
                                       hacked_field |-> "x"]
      [] OTHER                     -> [hacked_field |-> "x"]

RequestedTables == TableNames \cup {"not_a_real_table", "investor_password", NONE}

\* data objects for customer: empty, no column at all, an id alone, a full
\* row, a full row with its own id, a change of arr that also names an id.
CustomerData ==
    { <<>>,
      [hacked_field |-> "x"],
      [id |-> "r2"],
      Payload("customer"),
      [id |-> "r2", name |-> "Acme", is_pilot |-> TRUE],
      [id |-> "r3", arr |-> 200, hacked_field |-> "x"] }

Post(adminPassword, body) == Request("POST", NONE, NONE, NONE, adminPassword, body)

Options(adminPassword, body) == Request("OPTIONS", NONE, NONE, NONE, adminPassword, body)

\* Write requests: every credential header on one body, pre-flights, an
\* unparsable body, every table name on create, and every operation on
\* customer with and without id and data.
WriteRequests ==
    LET create == Body("create", "customer", NONE, TRUE, Payload("customer"), FALSE, <<>>)
    IN  {Post(c, create) : c \in CredentialHeaders}
        \cup {Options(c, create) : c \in {NONE, "pw1"}}
        \cup {Post(c, UnparsableBody) : c \in {NONE, "pw1"}}
        \cup {Post("pw1", Body("create", tb, NONE, TRUE, Payload(tb), FALSE, <<>>)) :
                tb \in RequestedTables}
        \cup {Post("pw1", Body(op, "customer", id, TRUE, d, FALSE, <<>>)) :
                op \in {"create", "update", "delete", "drop"},
                id \in {NONE, "r1"}, d \in CustomerData}
        \cup {Post("pw2", Body(op, "customer", "r1", TRUE, Payload("customer"), FALSE, <<>>)) :
                op \in {"create", "update", "delete"}}
        \cup {Post("pw1", Body(op, "customer", id, FALSE, <<>>, FALSE, <<>>)) :
                op \in {"create", "update", "delete"}, id \in {NONE, "r1"}}

EmptyTables == [tb \in TableNames |-> {}]

\* Rows of cash_position, with two rows sharing a date.
CashRow(id, amount, date) == [id |-> id, amount |-> amount, date |-> date]

CashTables ==
    { {},
      {CashRow("r1", 500, 1), CashRow("r2", 450, 3)},
      {CashRow("r1", 500, 2), CashRow("r2", 450, 1), CashRow("r3", 400, 2)} }

CustomerRow == [id |-> "r1", name |-> "Acme", is_pilot |-> FALSE, arr |-> 100]

StoredTables ==
    {[EmptyTables EXCEPT !["cash_position"] = cash, !["customer"] = {CustomerRow}] :
        cash \in CashTables}

List(table) == Body("list", table, NONE, FALSE, <<>>, FALSE, <<>>)

ListWhere(table, filters) == Body("list", table, NONE, FALSE, <<>>, TRUE, filters)

\* Read requests: every credential header on one list, pre-flights, an
\* unparsable body, list on every table name, list on an unknown table
\* with every credential header, list with filters, get with and without
\* id, getKPIs and an unknown operation.
ReadRequests ==
    {Post(c, List("cash_position")) : c \in CredentialHeaders}
    \cup {Options(c, List("cash_position")) : c \in {NONE, "pw1"}}
    \cup {Post(c, UnparsableBody) : c \in {NONE, "pw1"}}
    \cup {Post("pw1", List(tb)) : tb \in RequestedTables}
    \cup {Post(c, List("not_a_real_table")) : c \in CredentialHeaders}
    \cup {Post("pw1", ListWhere("customer", f)) :
            f \in {[name |-> "Acme"], [hacked_field |-> "x"], <<>>}}
    \cup {Post("pw1", ListWhere("quarter_goal", [quarter |-> 1, year |-> 2025]))}
    \cup {Post("pw1", Body("get", tb, id, FALSE, <<>>, FALSE, <<>>)) :
            tb \in {"customer", "not_a_real_table", NONE}, id \in {NONE, "r1", "r2"}}
    \cup {Post("pw1", Body(op, NONE, NONE, FALSE, <<>>, FALSE, <<>>)) :
            op \in {"getKPIs", "create", NONE}}

FailingReadRequests ==
    {Post("pw1", List("cash_position")),
     Post("pw1", Body("get", "customer", "r1", FALSE, <<>>, FALSE, <<>>)),
     Post("pw1", Body("getKPIs", NONE, NONE, FALSE, <<>>, FALSE, <<>>))}

AuthCallers == {NONE, "10.0.0.1"}

AuthPost(xff, password) ==
    Request("POST", NONE, xff, NONE, NONE, AuthBody(password))

\* Authenticate requests: no password, an empty one, the passwords, altered
\* ones and the overwritten plaintext of a migrated record; an unparsable
\* body; a pre-flight.
AuthRequests ==
    {AuthPost(x, p) : x \in AuthCallers,
                      p \in {NONE, "", "migrated"} \cup Passwords
                            \cup {Altered(q) : q \in Passwords}}
    \cup {Request("POST", NONE, x, NONE, NONE, UnparsableBody) : x \in AuthCallers}
    \cup {Request("OPTIONS", NONE, x, NONE, NONE, AuthBody("pw1")) : x \in AuthCallers}

FailingAuthRequests == {AuthPost(NONE, "pw1")}

\* The requests of the three endpoints that meet the Auth Gate: every
\* credential header on one list and on one delete, every password on
\* Authenticate, and a pre-flight of each.
GateReadRequests ==
    {Post(c, List("cash_position")) : c \in CredentialHeaders}
    \cup {Options("pw1", List("cash_position"))}

GateWriteRequests ==
    LET delete == Body("delete", "customer", "r1", FALSE, <<>>, FALSE, <<>>)
    IN  {Post(c, delete) : c \in CredentialHeaders} \cup {Options("pw1", delete)}

GateAuthRequests ==
    {AuthPost(NONE, p) : p \in Passwords \cup {Altered(q) : q \in Passwords}}
    \cup {Request("OPTIONS", NONE, NONE, NONE, NONE, AuthBody("pw1"))}

\* Requests followed under a storage failure as well.
FailingWriteRequests ==
    {Post("pw1", Body(op, "customer", "r1", TRUE, Payload("customer"), FALSE, <<>>)) :
        op \in {"create", "update", "delete"}}

FailModes == {"lookup", "query"}

-----------------------------------------------------------------------------
(* State and actions.                                                      *)

NoRequest == Request("NONE", NONE, NONE, NONE, NONE, UnparsableBody)

NoResponse == Response(0, NONE, {}, <<>>, <<>>, NONE)

\* last: [endpoint, req, resp, fail, before]; before: the rows of the
\* addressed table as the request found them.
Handled(endpoint, req, resp, fail, before) ==
    [endpoint |-> endpoint, req |-> req, resp |-> resp, fail |-> fail, before |-> before]

TotalRows(tables) ==
    LET RECURSIVE Sum(_)
        Sum(S) == IF S = {} THEN 0
                  ELSE LET tb == CHOOSE x \in S : TRUE
                       IN  Cardinality(tables[tb]) + Sum(S \ {tb})
    IN  Sum(TableNames)

\* The storage failure a request met, if it got as far as the failing call.
Met(fail, resp) ==
    IF fail = "lookup" /\ "lookup" \in resp.reached THEN "lookup"
    ELSE IF fail = "query" /\ "storage" \in resp.reached THEN "query"
    ELSE "none"

\* limiterLog: the key and time of the last call to the limiter, what it
\* answered, and per key the start of the key's current window and the
\* number of calls made in it, allowed or not, and whether a call for the
\* key was ever rejected.
NoCall == [key |-> NONE, at |-> 0, allowed |-> FALSE, fresh |-> FALSE, seen |-> EmptyMap]

\* The map of a limiter whose caller "unknown" has, within the window that
\* began at time 0, Headroom requests of its budget left.
Used(maxRequests) ==
    [k \in {"unknown"} |-> [count |-> maxRequests - Headroom, resetTime |-> WINDOW_MS]]

\* getKPIs was not run on its own.
NoKpi == [given |-> "none"]

\* verifyPassword was not run on its own.
NoVerify == [given |-> FALSE]

\* No request is being handled.
NoFlight == <<>>

\* No page is open.
NoClient == [open |-> FALSE]

\* The dashboard is not saving its notes.
NoSave == [pc |-> "idle"]

InitAll(passwords, tables, cfg) ==
    /\ rateLimitsWrite = Used(WRITE_MAX_REQUESTS)
    /\ rateLimitsRead = Used(READ_MAX_REQUESTS)
    /\ rateLimits = EmptyMap
    /\ limiterCfg = cfg
    /\ limiterLog = NoCall
    /\ now = 0
    /\ investor_password = passwords
    /\ db = tables
    /\ env = [ALLOWED_ORIGINS |-> <<>>, ALLOWED_DOMAINS |-> <<>>]
    /\ authSeen = EmptyMap
    /\ last = Handled("none", NoRequest, NoResponse, "none", {})
    /\ kpi = NoKpi
    /\ verified = NoVerify
    /\ inflight = NoFlight
    /\ client = NoClient
    /\ saving = NoSave

InitWith(passwords, tables) ==
    InitAll(passwords, tables, [maxRequests |-> 1, windowMs |-> 1000])

\* One request to data-write.
WriteRequest(req, fail) ==
    LET tb == req.body.table
        before == IF tb \in TableNames THEN db[tb] ELSE {}
        out == dataWrite(req, rateLimitsWrite, now, investor_password, before,
                         env.ALLOWED_ORIGINS, fail)
    IN  /\ req.body.operation = "create" => TotalRows(db) < MaxRows
        /\ rateLimitsWrite' = out.map
        /\ db' = IF tb \in TableNames THEN [db EXCEPT ![tb] = out.table] ELSE db
        /\ last' = Handled("write", req, out.resp, Met(fail, out.resp), before)
        /\ UNCHANGED << rateLimitsRead, rateLimits, limiterCfg, limiterLog, now,
                        investor_password, env, outside, authSeen >>

\* One request to data-read.
ReadRequest(req, fail) ==
    LET tb == req.body.table
        before == IF tb \in TableNames THEN db[tb] ELSE {}
        out == dataRead(req, rateLimitsRead, now, investor_password, db,
                        env.ALLOWED_ORIGINS, fail)
    IN  /\ rateLimitsRead' = out.map
        /\ last' = Handled("read", req, out.resp, Met(fail, out.resp), before)
        /\ UNCHANGED << rateLimitsWrite, rateLimits, limiterCfg, limiterLog, now,
                        investor_password, db, env, outside, authSeen >>

\* One request to admin-auth.
AuthRequest(req, fail) ==
    LET out == adminAuth(req, investor_password, env.ALLOWED_DOMAINS, fail)
    IN  /\ last' = Handled("auth", req, out.resp, Met(fail, out.resp), {})
        /\ UNCHANGED << rateLimitsWrite, rateLimitsRead, rateLimits, limiterCfg,
                        limiterLog, now, investor_password, db, env,
                        outside >>

\* authSeen counts the requests other than pre-flights that admin-auth
\* handles for each caller key; the clock stands still, so they fall in one
\* window of any length.
Counted(req) ==
    LET key == ClientKey(req)
        seen == IF key \in DOMAIN authSeen THEN authSeen[key] ELSE 0
    IN  /\ seen < MaxAuthRequests
        /\ authSeen' = IF IsPreflight(req) THEN authSeen ELSE Extend(authSeen, key, seen + 1)

-----------------------------------------------------------------------------
(* The Write endpoint on its own.                                          *)

InitWrite == \E passwords \in WriteCredentialSets : InitWith(passwords, EmptyTables)

NextWrite ==
    \/ \E req \in WriteRequests : WriteRequest(req, "none")
    \/ \E req \in FailingWriteRequests, fail \in FailModes : WriteRequest(req, fail)

SpecWrite == InitWrite /\ [][NextWrite]_vars

-----------------------------------------------------------------------------
(* The Read endpoint on its own.                                           *)

InitRead ==
    \E passwords \in CredentialSets, tables \in StoredTables : InitWith(passwords, tables)

NextRead ==
    \/ \E req \in ReadRequests : ReadRequest(req, "none")
    \/ \E req \in FailingReadRequests, fail \in FailModes : ReadRequest(req, fail)

SpecRead == InitRead /\ [][NextRead]_vars

-----------------------------------------------------------------------------
(* The Authenticate endpoint on its own, counting the requests of a caller. *)

InitAuth == \E passwords \in CredentialSets : InitWith(passwords, EmptyTables)

NextAuth ==
    \/ \E req \in AuthRequests : AuthRequest(req, "none") /\ Counted(req)
    \/ \E req \in FailingAuthRequests : AuthRequest(req, "lookup") /\ Counted(req)

SpecAuth == InitAuth /\ [][NextAuth]_vars

-----------------------------------------------------------------------------
(* The three endpoints together, on the requests that meet the Auth Gate.  *)

Init ==
    \E passwords \in CredentialSets, tables \in StoredTables : InitWith(passwords, tables)

Next ==
    \/ \E req \in GateAuthRequests : AuthRequest(req, "none") /\ UNCHANGED authSeen
    \/ \E req \in GateReadRequests : ReadRequest(req, "none")
    \/ \E req \in GateWriteRequests : WriteRequest(req, "none")

Spec == Init /\ [][Next]_vars

-----------------------------------------------------------------------------
(* The Rate Limiter on its own: allow(key, maxRequests, windowMs) for any  *)
(* budget and window, called by two keys while time passes.                *)

LimiterKeys == {"10.0.0.1", "unknown"}

LimiterWindows == {1000, 1500}

\* The window of a key begins with the first call for the key, and with
\* the first call made after the window before it has elapsed.
Fresh(seen, key, t, windowMs) ==
    key \notin DOMAIN seen \/ t > seen[key].start + windowMs

LimiterCall(key) ==
    LET out == checkRateLimit(rateLimits, key, limiterCfg.maxRequests,
                              limiterCfg.windowMs, now)
        seen == limiterLog.seen
        fresh == Fresh(seen, key, now, limiterCfg.windowMs)
        calls == IF fresh THEN 1 ELSE seen[key].calls + 1
    IN  /\ calls <= MaxCalls
        /\ rateLimits' = out.map
        /\ limiterLog' = [key |-> key, at |-> now, allowed |-> out.allowed,
                          fresh |-> fresh,
                          seen |-> Extend(seen, key,
                                     [start |-> IF fresh THEN now ELSE seen[key].start,
                                      calls |-> calls,
                                      denied |-> \/ ~out.allowed
                                                 \/ key \in DOMAIN seen /\ seen[key].denied])]
        /\ UNCHANGED << rateLimitsWrite, rateLimitsRead, limiterCfg, now,
                        investor_password, db, env, outside, authSeen, last >>

LimiterTick(d) ==
    /\ now + d <= MaxLimiterTime
    /\ now' = now + d
    /\ UNCHANGED << rateLimitsWrite, rateLimitsRead, rateLimits, limiterCfg, limiterLog,
                    investor_password, db, env, outside, authSeen, last >>

InitRate ==
    \E m \in 1..MaxBudget, w \in LimiterWindows :
        InitAll({}, EmptyTables, [maxRequests |-> m, windowMs |-> w])

NextRate ==
    \/ \E key \in LimiterKeys : LimiterCall(key)
    \/ \E d \in {500, 1001} : LimiterTick(d)

SpecRate == InitRate /\ [][NextRate]_vars

\* C8: fixed-window rule of the Rate Limiter.  A call made when the key has
\* no entry or when now > resetTime is allowed and sets the entry to
\* {count: 1, resetTime: now + windowMs}; such a call, and no other, begins a
\* window of the key; a call is allowed iff it is among the first
\* maxRequests calls of its window.
C8_FixedWindow ==
    [][ limiterLog' # limiterLog =>
          LET k == limiterLog'.key
              open == k \notin DOMAIN rateLimits \/ now > rateLimits[k].resetTime
          IN  /\ open => /\ limiterLog'.allowed
                         /\ rateLimits'[k] =
                              [count |-> 1, resetTime |-> now + limiterCfg.windowMs]
              /\ open <=> limiterLog'.fresh
              /\ limiterLog'.allowed <=>
                   limiterLog'.seen[k].calls <= limiterCfg.maxRequests ]_vars

\* C8 witness: with maxRequests = 3 and windowMs = 1000 a key that was
\* rejected in an earlier window is allowed again by the first call after
\* that window elapsed.
C8_AllowedAgain ==
    /\ limiterCfg = [maxRequests |-> 3, windowMs |-> 1000]
    /\ limiterLog.key # NONE
    /\ limiterLog.fresh /\ limiterLog.allowed
    /\ limiterLog.at > limiterCfg.windowMs
    /\ limiterLog.seen[limiterLog.key].denied
    /\ rateLimits[limiterLog.key].count = 1

-----------------------------------------------------------------------------
(* The claims about the Auth Gate and the Request Router.                  *)

\* A record authenticates a password iff verification succeeds against its
\* hash or, absent a hash, the password equals its plaintext.
RecordAuthenticates(user, password) ==
    IF user.password_hash # NoHash
    THEN verifyPassword(password, user.password_hash)
    ELSE user.password = password

Matches(password) ==
    Truthy(password) /\ \E user \in investor_password : RecordAuthenticates(user, password)

OnData == last.endpoint \in {"read", "write"} /\ last.req.method # "OPTIONS"

DomainCalls(resp) ==
    {i \in 1..Len(resp.calls) : resp.calls[i].table # "investor_password"}

\* The request got to operation or table validation, or to a domain table.
Routed(resp) ==
    \/ resp.reached \cap {"operation", "table", "fields", "storage"} # {}
    \/ DomainCalls(resp) # {}

\* C1 as claimed: a request to Read or Write whose credential is missing or
\* matches no record is always answered 401 and is never routed.
C1_Always401 ==
    OnData /\ ~Matches(last.req.adminPassword)
        => last.resp.status = 401 /\ ~Routed(last.resp)

\* C1: a request to Read or Write whose credential is missing or matches no
\* record is answered 429 when the rate limiter rejects it and 401
\* otherwise, and is never routed; so a routed request matched a record.
C1_GateBeforeRouter ==
    OnData /\ ~Matches(last.req.adminPassword)
        => /\ ~Routed(last.resp)
           /\ last.resp.status = IF last.resp.reached = {"ratelimit"} THEN 429 ELSE 401

\* C1 witness: a credential that matches no record was looked up and
\* answered 401 on Write while a record exists.
C1_Rejected ==
    /\ last.endpoint = "write" /\ OnData
    /\ investor_password # {}
    /\ Truthy(last.req.adminPassword) /\ ~Matches(last.req.adminPassword)
    /\ last.resp.status = 401
    /\ "lookup" \in last.resp.reached

\* C2: on create and update the fields handed to the storage insert/update
\* are among the table's field whitelist and among the fields supplied, and
\* no stored row has a field outside its table's whitelist.
C2_OnlyWhitelistedFields ==
    /\ last.endpoint = "write" =>
         \A i \in 1..Len(last.resp.calls) :
            LET call == last.resp.calls[i]
            IN  call.verb \in {"insert", "update"} =>
                  /\ DOMAIN call.data \subseteq
                        allowedFields(call.table) \cap DOMAIN last.req.body.data
                  /\ "hacked_field" \notin DOMAIN call.data
    /\ \A tb \in TableNames : \A r \in db[tb] : "hacked_field" \notin DOMAIN r

\* C2 witness: a create on customer with {name, is_pilot, arr, hacked_field}
\* stored the row without hacked_field.
C2_Filtered ==
    /\ last.endpoint = "write"
    /\ last.req.body.operation = "create" /\ last.req.body.table = "customer"
    /\ "hacked_field" \in DOMAIN last.req.body.data
    /\ last.resp.status = 200
    /\ \E r \in db["customer"] : DOMAIN r = {"id", "name", "is_pilot", "arr"}

\* C3 as claimed: an authenticated request with a valid operation passes
\* table validation iff it names one of the seven tables, and a request
\* that names another table is answered 400 without a domain-table call.
C3_SameSevenTables ==
    /\ OnData
    /\ "operation" \in last.resp.reached
    /\ last.req.body.operation \in {"list", "get", "create", "update", "delete"}
    => IF last.req.body.table \in TableNames
       THEN last.resp.error \notin {"Invalid table", "Invalid table or missing id"}
              \/ (last.req.body.operation = "get" /\ ~Truthy(last.req.body.id))
       ELSE last.resp.status = 400 /\ DomainCalls(last.resp) = {}

\* Columns a storage call may name: the table's field whitelist, and the
\* columns the handlers themselves name.
ColumnWhitelist(table) ==
    CASE table = "pipeline_note"     -> {"id", "content", "order"}
      [] table = "investor_password" -> {"password", "password_hash"}
      [] OTHER                       -> allowedFields(table)

\* C4 as claimed: every table name and every column name of every storage
\* call is in a fixed whitelist.
C4_WhitelistedNames ==
    \A i \in 1..Len(last.resp.calls) :
        LET call == last.resp.calls[i]
        IN  /\ call.table \in TableNames \cup {"investor_password"}
            /\ CallColumns(call) \subseteq ColumnWhitelist(call.table)

\* C5 as claimed: a Write request changes a table only if its credential
\* matches a record whose management flag is true.
C5_ManagementOnly ==
    /\ last.endpoint = "write"
    /\ last.req.body.table \in TableNames
    /\ db[last.req.body.table] # last.before
    => \E user \in investor_password :
          /\ RecordAuthenticates(user, last.req.adminPassword)
          /\ user.is_artemis_management

\* C6 as claimed: on Read and on Write alike, a request whose credential
\* check ran (the records were loaded) is authenticated iff some record
\* authenticates the password.
C6_SameDecision ==
    OnData /\ "lookup" \in last.resp.reached /\ last.fail = "none"
        => (last.resp.error # "Invalid credentials" <=> Matches(last.req.adminPassword))

SortedDescending(rows, col) ==
    \A i, j \in 1..Len(rows) : i < j => rows[i][col] >= rows[j][col]

\* C7 as claimed: when Authenticate answers authenticated:true for a
\* password, the list on cash_position that follows it with that password
\* (budget not exhausted) is answered 200 with all rows by descending date,
\* and with the altered password 401.
C7_EndToEnd ==
    [][ /\ last.endpoint = "auth" /\ last.resp.authenticated
        /\ last'.endpoint = "read" /\ last'.req.method = "POST"
        /\ last'.req.body = List("cash_position")
        /\ last'.resp.status # 429
        => /\ last'.req.adminPassword = last.req.body.password
                => /\ last'.resp.status = 200
                   /\ SortedDescending(last'.resp.rows, "date")
                   /\ Range(last'.resp.rows) = db["cash_position"]
           /\ last'.req.adminPassword = Altered(last.req.body.password)
                => last'.resp.status = 401 ]_vars

\* C9 as claimed: the eleventh Authenticate request of a caller key within
\* one window is answered 429 without a credential lookup.
C9_EleventhRejected ==
    /\ last.endpoint = "auth" /\ last.req.method # "OPTIONS"
    /\ ClientKey(last.req) \in DOMAIN authSeen
    /\ authSeen[ClientKey(last.req)] > 10
    => last.resp.status = 429 /\ last.resp.calls = <<>>

\* C10: a pre-flight is answered 200 with the CORS header and nothing else
\* happens: no step of the handler is reached, no storage call is issued,
\* and the rate-limit maps and the tables stay as they were.
C10_PreflightBypass ==
    [][ last'.req.method = "OPTIONS"
        => /\ last'.resp.status = 200
           /\ last'.resp.error = NONE
           /\ last'.resp.allowOrigin # NONE
           /\ last'.resp.reached = {}
           /\ last'.resp.calls = <<>>
           /\ UNCHANGED << rateLimitsWrite, rateLimitsRead, db, investor_password >> ]_vars

\* C10 witness: a pre-flight with a credential header was answered 200 by
\* Write while the caller's budget was exhausted.
C10_AnsweredWhenExhausted ==
    /\ last.endpoint = "write" /\ last.req.method = "OPTIONS"
    /\ last.resp.status = 200
    /\ rateLimitsWrite["unknown"].count = WRITE_MAX_REQUESTS

-----------------------------------------------------------------------------
(* Read and Write under callers with different headers, while the minute   *)
(* of the rate-limit window passes.                                        *)

MaxFresh == 1           \* requests followed per key in a window begun later

MaxClock == 60001       \* the clock of the two endpoints stops here

CallerKeys == {"10.0.0.1", "10.0.0.2", "unknown"}

\* The map of a limiter whose callers all have, within the window that
\* began at time 0, one request of their budget left.
UsedBy(keys, maxRequests) ==
    [k \in keys |-> [count |-> maxRequests - 1, resetTime |-> WINDOW_MS]]

\* Requests with and without x-forwarded-for and x-real-ip; one without
\* a credential; an unparsable body; a pre-flight.
LimitedRequests(body) ==
    {Request("POST", NONE, xff, xri, "pw1", body) :
        xff \in {NONE, "10.0.0.1"}, xri \in {NONE, "10.0.0.2"}}
    \cup {Request("POST", NONE, NONE, NONE, NONE, body),
          Request("POST", NONE, NONE, "10.0.0.2", "pw1", UnparsableBody),
          Request("OPTIONS", NONE, "10.0.0.1", NONE, "pw1", body)}

LimitedReadRequests == LimitedRequests(List("cash_position"))

LimitedWriteRequests ==
    LimitedRequests(Body("delete", "customer", "r1", FALSE, <<>>, FALSE, <<>>))

\* A request is followed unless its key already made MaxFresh requests in
\* a window that began after the start.
Followed(map, req) ==
    LET key == ClientKey(req)
    IN  \/ IsPreflight(req)
        \/ key \notin DOMAIN map
        \/ map[key].resetTime <= WINDOW_MS
        \/ now > map[key].resetTime
        \/ map[key].count < MaxFresh

\* Date.now() moves on.
Tick(d) ==
    /\ now + d <= MaxClock
    /\ now' = now + d
    /\ UNCHANGED << rateLimitsWrite, rateLimitsRead, rateLimits, limiterCfg, limiterLog,
                    investor_password, db, env, outside, authSeen, last >>

InitLimited ==
    /\ rateLimitsWrite = UsedBy(CallerKeys, WRITE_MAX_REQUESTS)
    /\ rateLimitsRead = UsedBy(CallerKeys, READ_MAX_REQUESTS)
    /\ rateLimits = EmptyMap
    /\ limiterCfg = [maxRequests |-> 1, windowMs |-> 1000]
    /\ limiterLog = NoCall
    /\ now = 0
    /\ investor_password = {Record("u1", "pw1", HashOf("pw1"), TRUE)}
    /\ db = [EmptyTables EXCEPT !["customer"] = {CustomerRow}]
    /\ env = [ALLOWED_ORIGINS |-> <<>>, ALLOWED_DOMAINS |-> <<>>]
    /\ authSeen = EmptyMap
    /\ last = Handled("none", NoRequest, NoResponse, "none", {})
    /\ kpi = NoKpi
    /\ verified = NoVerify
    /\ inflight = NoFlight
    /\ client = NoClient
    /\ saving = NoSave

NextLimited ==
    \/ \E req \in LimitedReadRequests :
          Followed(rateLimitsRead, req) /\ ReadRequest(req, "none")
    \/ \E req \in LimitedWriteRequests :
          Followed(rateLimitsWrite, req) /\ WriteRequest(req, "none")
    \/ \E d \in {WINDOW_MS, WINDOW_MS + 1} : Tick(d)

SpecLimited == InitLimited /\ [][NextLimited]_vars

\* The caller key as the claim states it: forwarded-for, else real-IP, else
\* the bucket "unknown".
CallerKey(req) ==
    IF req.xff \notin {NONE, ""} THEN req.xff
    ELSE IF req.xri \notin {NONE, ""} THEN req.xri
    ELSE "unknown"

\* C11: on Read and Write a request other than a pre-flight is rejected
\* with 429 exactly when its caller key (forwarded-for, else real-IP, else
\* "unknown") has used its budget (60 on Read, 30 on Write) in a window of
\* one minute that has not elapsed; a rejected request reaches no other
\* step, issues no storage call and changes neither the map nor the tables;
\* any other request takes one slot of its key's budget and of no other's.
C11_LimiterFirst ==
    [][ \A ep \in {"read", "write"} :
          LET map    == IF ep = "read" THEN rateLimitsRead ELSE rateLimitsWrite
              after  == IF ep = "read" THEN rateLimitsRead' ELSE rateLimitsWrite'
              budget == IF ep = "read" THEN 60 ELSE 30
              key    == CallerKey(last'.req)
              within == key \in DOMAIN map /\ ~(now > map[key].resetTime)
              full   == within /\ map[key].count >= budget
          IN  /\ last'.endpoint = ep
              /\ last'.req.method # "OPTIONS"
              /\ (last' # last \/ after # map)
              => /\ last'.resp.status = 429 <=> full
                 /\ full => /\ last'.resp.reached = {"ratelimit"}
                            /\ last'.resp.calls = <<>>
                            /\ after = map
                            /\ db' = db
                 /\ ~full => after = Extend(map, key,
                               IF within
                               THEN [count |-> map[key].count + 1,
                                     resetTime |-> map[key].resetTime]
                               ELSE [count |-> 1, resetTime |-> now + 60000]) ]_vars

\* C11 witness: a request with a valid credential and only the real-IP
\* header was rejected on Read while the bucket "unknown" had budget left.
C11_RejectedByKey ==
    /\ last.endpoint = "read" /\ last.req.method = "POST"
    /\ last.req.xff = NONE /\ last.req.xri = "10.0.0.2"
    /\ last.req.adminPassword = "pw1"
    /\ last.resp.status = 429
    /\ rateLimitsRead["10.0.0.2"].count = 60
    /\ rateLimitsRead["unknown"].count < 60

-----------------------------------------------------------------------------
(* The claims about the Request Router's validation.                       *)

ListsUnknownTable ==
    /\ last.endpoint = "read" /\ last.req.method = "POST"
    /\ last.req.body.operation = "list"
    /\ last.req.body.table \notin
         {"cash_position", "monthly_burn", "customer", "employee_count",
          "pipeline_client", "quarter_goal", "pipeline_note"}

\* Some record has a hash that verifies against the password.
HashMatches(password) ==
    \E user \in investor_password :
        user.password_hash # NoHash /\ verifyPassword(password, user.password_hash)

\* C12 as claimed: a list on a table outside the whitelist is answered 400
\* InvalidTable whatever the credential is.
C12_Always400 ==
    ListsUnknownTable
        => last.resp.status = 400 /\ last.resp.error = "Invalid table"

\* C12: a list on a table outside the whitelist never succeeds and never
\* reaches a domain table: it is answered 429, 401 or 400; 400 InvalidTable
\* only to a credential that matches a record, 401 or 429 to any other, and
\* 400 to every request that passed the limiter with a credential whose
\* hash verifies.
C12_UnknownTableFails ==
    ListsUnknownTable
        => /\ DomainCalls(last.resp) = {} /\ last.resp.rows = <<>>
           /\ last.resp.status \in {400, 401, 429}
           /\ last.resp.status = 400
                => last.resp.error = "Invalid table" /\ Matches(last.req.adminPassword)
           /\ HashMatches(last.req.adminPassword) /\ "credential" \in last.resp.reached
                => last.resp.status = 400

\* C12 witness: a list on not_a_real_table with a valid credential was
\* answered 400 InvalidTable.
C12_InvalidTable ==
    /\ ListsUnknownTable
    /\ last.req.body.table = "not_a_real_table"
    /\ HashMatches(last.req.adminPassword)
    /\ last.resp.status = 400 /\ last.resp.error = "Invalid table"

\* A Write request that passed the gate and operation and table validation.
Validated ==
    /\ last.endpoint = "write" /\ last.req.method = "POST"
    /\ "table" \in last.resp.reached
    /\ last.resp.error # "Invalid table"

Mutations(resp) ==
    {i \in 1..Len(resp.calls) : resp.calls[i].verb \in {"insert", "update", "delete"}}

\* The fields of a create or update that are left after filtering.
Remaining(body) ==
    (DOMAIN body.data \cap allowedFields(body.table))
        \ (IF body.operation = "update" THEN {"id"} ELSE {})

ZeroFields ==
    /\ Validated
    /\ last.req.body.operation \in {"create", "update"}
    /\ last.req.body.hasData
    /\ Remaining(last.req.body) = {}

\* C13 as claimed: a create or update whose data has no field left after
\* filtering is answered 400 NoValidFields and issues no insert or update.
C13_NoValidFields ==
    ZeroFields
        => /\ last.resp.status = 400
           /\ last.resp.error \in {"No valid fields provided", "No valid fields to update"}
           /\ Mutations(last.resp) = {}

\* C13: a create or update whose data has no field left after filtering is
\* answered 400, issues no insert or update and leaves the table as it
\* was; the error is NoValidFields, except that an update without an id
\* is answered with the missing-id error first.
C13_ZeroFieldsRejected ==
    ZeroFields
        => /\ last.resp.status = 400
           /\ last.resp.error =
                IF last.req.body.operation = "create" THEN "No valid fields provided"
                ELSE IF last.req.body.id \in {NONE, ""} THEN "Missing id or data"
                ELSE "No valid fields to update"
           /\ Mutations(last.resp) = {}
           /\ db[last.req.body.table] = last.before

\* C13 witness: an update of customer r1 whose data names an id alone was
\* answered 400 NoValidFields while the row exists.
C13_OnlyIdGiven ==
    /\ ZeroFields
    /\ last.req.body.operation = "update" /\ last.req.body.id = "r1"
    /\ DOMAIN last.req.body.data = {"id"}
    /\ last.resp.error = "No valid fields to update"
    /\ \E r \in db["customer"] : r["id"] = "r1"

Ids(rows) == {r["id"] : r \in rows}

\* C14: the object handed to a storage update never has an "id" key, the id
\* supplied next to it is the lookup predicate of that update and nothing
\* else, and an update leaves the ids of the table's rows as they were.
C14_IdNeverUpdated ==
    last.endpoint = "write" /\ last.req.body.operation = "update"
        => /\ \A i \in 1..Len(last.resp.calls) :
                LET call == last.resp.calls[i]
                IN  call.verb = "update"
                      => /\ "id" \notin DOMAIN call.data
                         /\ call.filters = [c \in {"id"} |-> last.req.body.id]
           /\ last.req.body.table \in TableNames
                => Ids(db[last.req.body.table]) = Ids(last.before)

\* C14 witness: an update of customer r1 whose data names the id r3 and a
\* new arr changed arr and left the id r1.
C14_IdKept ==
    /\ last.endpoint = "write" /\ last.req.body.operation = "update"
    /\ last.req.body.id = "r1"
    /\ "id" \in DOMAIN last.req.body.data /\ last.req.body.data["id"] = "r3"
    /\ last.resp.status = 200
    /\ \E r \in db["customer"] : r["id"] = "r1" /\ r["arr"] = 200
    /\ Ids(db["customer"]) = {"r1"}

-----------------------------------------------------------------------------
(* The three endpoints together on every operation, with and without an    *)
(* id, with bodies that do not parse and with storage that fails.          *)

ServeCredentials == {Record("u1", "pw1", HashOf("pw1"), TRUE)}

ServeTables == {EmptyTables, [EmptyTables EXCEPT !["customer"] = {CustomerRow}]}

ServeIds == {NONE, "", "r1"}

ServeReadRequests ==
    {Post("pw1", Body(op, "customer", id, FALSE, <<>>, FALSE, <<>>)) :
        op \in allowedOperationsRead, id \in ServeIds}
    \cup {Post("pw1", UnparsableBody), Post(Altered("pw1"), List("customer"))}

ServeWriteRequests ==
    {Post("pw1", Body(op, "customer", id, TRUE, Payload("customer"), FALSE, <<>>)) :
        op \in allowedOperations, id \in ServeIds}
    \cup {Post("pw1", UnparsableBody),
          Post(Altered("pw1"),
               Body("delete", "customer", "r1", FALSE, <<>>, FALSE, <<>>))}

ServeAuthRequests ==
    {AuthPost(NONE, p) : p \in {NONE, "pw1", Altered("pw1")}}
    \cup {Request("POST", NONE, NONE, NONE, NONE, UnparsableBody)}

ServeFailModes == {"none"} \cup FailModes

InitServe == \E tables \in ServeTables : InitWith(ServeCredentials, tables)

NextServe ==
    \/ \E req \in ServeReadRequests, fail \in ServeFailModes : ReadRequest(req, fail)
    \/ \E req \in ServeWriteRequests, fail \in ServeFailModes : WriteRequest(req, fail)
    \/ \E req \in ServeAuthRequests, fail \in ServeFailModes :
          AuthRequest(req, fail) /\ UNCHANGED authSeen

SpecServe == InitServe /\ [][NextServe]_vars

\* An authenticated get, update or delete on a whitelisted table.
Targeted ==
    /\ last.req.method = "POST"
    /\ "operation" \in last.resp.reached
    /\ \/ last.endpoint = "read" /\ last.req.body.operation = "get"
       \/ last.endpoint = "write" /\ last.req.body.operation \in {"update", "delete"}
    /\ last.req.body.table \in
         {"cash_position", "monthly_burn", "customer", "employee_count",
          "pipeline_client", "quarter_goal"}

\* C15: an authenticated get, update or delete on a whitelisted table that
\* gives no id is answered 400, issues no call on a domain table and leaves
\* the table as it was.
C15_IdRequired ==
    Targeted /\ last.req.body.id \in {NONE, ""}
        => /\ last.resp.status = 400
           /\ DomainCalls(last.resp) = {}
           /\ db[last.req.body.table] = last.before

\* C15 witness: a delete on customer without an id was answered 400 while
\* the table holds a row.
C15_DeleteWithoutId ==
    /\ Targeted /\ last.req.body.operation = "delete"
    /\ last.req.body.id = NONE
    /\ last.resp.status = 400 /\ last.resp.error = "Missing id"
    /\ db["customer"] # {}

\* C16: a Write request answered 400, 401 or 429 attempted no insert,
\* update or delete and left every table as it was, and every failure of
\* the gate or of validation is answered with one of these.
C16_NoPartialEffects ==
    [][ last'.endpoint = "write"
        => /\ last'.resp.status \in {400, 401, 429}
                => Mutations(last'.resp) = {} /\ db' = db
           /\ last'.resp.error \in
                {"Too many requests", "Authentication required", "Invalid credentials",
                 "Invalid operation", "Invalid table", "Missing data",
                 "Missing id or data", "Missing id", "No valid fields provided",
                 "No valid fields to update"}
                => last'.resp.status \in {400, 401, 429} ]_vars

\* C16 witness: a Write request with an operation that is not allowed was
\* answered 400 while customer holds a row.
C16_Aborted ==
    /\ last.endpoint = "write" /\ last.req.method = "POST"
    /\ last.resp.status = 400 /\ last.resp.error = "Invalid operation"
    /\ db["customer"] # {}

-----------------------------------------------------------------------------
(* The three endpoints under an allow-list of origins, called from         *)
(* different origins.                                                      *)

AllowLists == {<<>>, <<"example.com">>}

Origins == {NONE, "https://example.com", "https://sub.example.com", "https://evil.com"}

Referers == {NONE, "https://example.com/login"}

From(origin, referer, req) == [req EXCEPT !.origin = origin, !.referer = referer]

OriginReadRequests ==
    {From(o, NONE, r) : o \in Origins,
                        r \in {Post("pw1", List("customer")),
                               Options(NONE, List("customer"))}}

OriginWriteRequests ==
    {From(o, NONE, r) :
        o \in Origins,
        r \in {Post("pw1", Body("delete", "customer", "r1", FALSE, <<>>, FALSE, <<>>)),
               Options(NONE, UnparsableBody)}}

OriginAuthRequests ==
    {From(o, f, r) : o \in Origins, f \in Referers,
                     r \in {AuthPost(NONE, "pw1"),
                            Request("OPTIONS", NONE, NONE, NONE, NONE, AuthBody(NONE))}}

InitOrigin ==
    /\ rateLimitsWrite = Used(WRITE_MAX_REQUESTS)
    /\ rateLimitsRead = Used(READ_MAX_REQUESTS)
    /\ rateLimits = EmptyMap
    /\ limiterCfg = [maxRequests |-> 1, windowMs |-> 1000]
    /\ limiterLog = NoCall
    /\ now = 0
    /\ investor_password = ServeCredentials
    /\ db = [EmptyTables EXCEPT !["customer"] = {CustomerRow}]
    /\ env \in [ALLOWED_ORIGINS : AllowLists, ALLOWED_DOMAINS : AllowLists]
    /\ authSeen = EmptyMap
    /\ last = Handled("none", NoRequest, NoResponse, "none", {})
    /\ kpi = NoKpi
    /\ verified = NoVerify
    /\ inflight = NoFlight
    /\ client = NoClient
    /\ saving = NoSave

NextOrigin ==
    \/ \E req \in OriginReadRequests : ReadRequest(req, "none")
    \/ \E req \in OriginWriteRequests : WriteRequest(req, "none")
    \/ \E req \in OriginAuthRequests : AuthRequest(req, "none") /\ UNCHANGED authSeen

SpecOrigin == InitOrigin /\ [][NextOrigin]_vars

\* An origin is permitted iff the allow-list is empty or the origin
\* contains one of its entries.
Permitted(origin, allowList) ==
    \/ Len(allowList) = 0
    \/ origin \notin {NONE, ""} /\ \E i \in 1..Len(allowList) : Includes(origin, allowList[i])

\* C17 as claimed: on every endpoint a request other than a pre-flight is
\* rejected, before anything else is done, iff its origin is not permitted
\* by the endpoint's allow-list.
C17_OriginGuard ==
    last.endpoint # "none" /\ last.req.method # "OPTIONS"
        => LET allowList == IF last.endpoint = "auth" THEN env.ALLOWED_DOMAINS
                            ELSE env.ALLOWED_ORIGINS
               permitted == Permitted(last.req.origin, allowList)
           IN  /\ permitted <=> last.resp.status # 403
               /\ ~permitted => last.resp.calls = <<>>

\* C18 as claimed: a request that met a storage error, on the credential
\* lookup or on a domain table, is answered 500.
C18_StorageFailure500 ==
    last.fail # "none" => last.resp.status = 500

\* The fixed messages of the error responses.
Taxonomy ==
    {"Too many requests", "Authentication required", "Invalid credentials",
     "Invalid password", "Domain not allowed", "Invalid request body",
     "Password is required", "Invalid operation", "Invalid table",
     "Invalid table or missing id", "Missing data", "Missing id or data",
     "Missing id", "No valid fields provided", "No valid fields to update",
     "Record not found", "Database operation failed", "Database error",
     "Internal server error"}

\* C19 as claimed: the body of an error response holds a fixed message and
\* nothing of the underlying storage error or exception.
C19_CauseNotEchoed ==
    last.endpoint # "none" /\ last.resp.status >= 400
        => last.resp.error \in Taxonomy /\ last.resp.details = NONE

\* C20 as claimed: on every endpoint a request whose body does not parse
\* is, once the handler comes to parse it, answered 400.
C20_Malformed400 ==
    /\ last.endpoint # "none" /\ last.req.method # "OPTIONS"
    /\ ~last.req.body.ok
    /\ "parse" \in last.resp.reached
    => last.resp.status = 400

-----------------------------------------------------------------------------
(* The KPI Aggregator: getKPIs on rows handed to it in any order, and the  *)
(* getKPIs request of data-read on stored tables.                          *)

MaxKpiRows == 3         \* rows handed to the aggregator per table

\* The lists of at most n distinct rows of a pool, in every order.
Lists(pool, n) ==
    UNION { {s \in [1..k -> pool] : \A i, j \in 1..k : s[i] = s[j] => i = j} :
            k \in 0..n }

\* Rows of cash_position and monthly_burn, two of them with the same date.
CashPool == {CashRow("r1", 500, 1), CashRow("r2", 450, 3), CashRow("r3", 400, 3)}

BurnPool == {[id |-> "r1", amount |-> 40, month |-> 2],
             [id |-> "r2", amount |-> 60, month |-> 4]}

\* Customers with arr alone, with arr and contract_value, and with neither.
CustomerPool ==
    {[id |-> "r1", name |-> "Acme", is_pilot |-> FALSE, arr |-> 100],
     [id |-> "r2", name |-> "Bolt", is_pilot |-> TRUE, arr |-> 50, contract_value |-> 70],
     [id |-> "r3", name |-> "Cord", is_pilot |-> TRUE]}

\* Pipeline clients: two in one cell, one without a stage, one without a
\* size, one with a segment and one with a stage outside the fixed lists.
ClientPool ==
    {[id |-> "r1", name |-> "Lead", segment |-> "smb", stage |-> "pilot",
      estimated_contract_size |-> 10, engagement_start_date |-> 2],
     [id |-> "r2", name |-> "Mill", segment |-> "smb", stage |-> "pilot",
      estimated_contract_size |-> 20, engagement_start_date |-> 1],
     [id |-> "r3", name |-> "Nook", segment |-> "mid_market",
      estimated_contract_size |-> 5, engagement_start_date |-> 1],
     [id |-> "r4", name |-> "Oak", segment |-> "enterprise", stage |-> "pilot",
      estimated_contract_size |-> 7, engagement_start_date |-> 1],
     [id |-> "r5", name |-> "Pine", segment |-> "large_cap", stage |-> "closed",
      engagement_start_date |-> 3]}

KpiTables ==
    {EmptyTables,
     [EmptyTables EXCEPT !["cash_position"] = CashPool, !["monthly_burn"] = BurnPool,
                         !["customer"] = CustomerPool, !["pipeline_client"] = ClientPool]}

\* getKPIs on the rows given, the other tables being empty.
Aggregate(given, cashPositions, monthlyBurns, customers, pipelineClients) ==
    /\ kpi' = [given |-> given, cashPositions |-> cashPositions,
               monthlyBurns |-> monthlyBurns, customers |-> customers,
               pipelineClients |-> pipelineClients,
               snapshot |-> getKPIs(cashPositions, monthlyBurns, customers, <<>>,
                                    pipelineClients, <<>>, now)]
    /\ UNCHANGED << rateLimitsWrite, rateLimitsRead, rateLimits, limiterCfg, limiterLog,
                    now, investor_password, db, env, authSeen, last, verified,
                    inflight, client, saving >>

KpiRequest == Post("pw1", Body("getKPIs", NONE, NONE, FALSE, <<>>, FALSE, <<>>))

InitKpi == \E tables \in KpiTables : InitWith(ServeCredentials, tables)

NextKpi ==
    \/ \E cash \in Lists(CashPool, MaxKpiRows), burn \in Lists(BurnPool, MaxKpiRows) :
          Aggregate("cash", cash, burn, <<>>, <<>>)
    \/ \E customers \in Lists(CustomerPool, MaxKpiRows) :
          Aggregate("customers", <<>>, <<>>, customers, <<>>)
    \/ \E clients \in Lists(ClientPool, MaxKpiRows) :
          Aggregate("clients", <<>>, <<>>, <<>>, clients)
    \/ ReadRequest(KpiRequest, "none")

SpecKpi == InitKpi /\ [][NextKpi]_vars

\* The snapshot has the amount and the date of a row of the list with the
\* maximum date.
LatestOf(list, col, amount, date) ==
    \E i \in 1..Len(list) :
        /\ \A j \in 1..Len(list) : list[i][col] >= list[j][col]
        /\ amount = list[i]["amount"]
        /\ date = list[i][col]

KpiSeen ==
    (IF kpi.given # "none"
        THEN {[clients |-> Range(kpi.pipelineClients), customers |-> Range(kpi.customers),
               snapshot |-> kpi.snapshot]}
        ELSE {})
    \cup (IF last.endpoint = "read" /\ last.req.body.operation = "getKPIs"
             /\ last.resp.status = 200
            THEN {[clients |-> db["pipeline_client"], customers |-> db["customer"],
                   snapshot |-> last.resp.rows[1]]}
            ELSE {})

\* The sum of a column over a set of rows, a NULL counting as 0.
SumOver(rows, col) ==
    LET RECURSIVE Sum(_)
        Sum(S) == IF S = {} THEN 0
                  ELSE LET r == CHOOSE x \in S : TRUE
                       IN  (IF col \in DOMAIN r THEN r[col] ELSE 0) + Sum(S \ {r})
    IN  Sum(rows)

\* The stage of a pipeline-client row, an absent one being initial_meeting.
StageOf(p) == IF "stage" \in DOMAIN p THEN p["stage"] ELSE "initial_meeting"

SegmentOf(p) == IF "segment" \in DOMAIN p THEN p["segment"] ELSE NONE

\* The cells of the matrix that hold the client of a row.
CellsOf(matrix, p) ==
    {cell \in Range(segments) \X Range(stages) :
        \E i \in 1..Len(matrix[cell[1]][cell[2]].clients) :
            matrix[cell[1]][cell[2]].clients[i].id = p.id}

\* C22: each cell [segment][stage] of the pipeline matrix holds exactly the
\* formatted clients of that segment and (defaulted) stage, its count is
\* their number and its totalValue the sum of their estimated contract
\* sizes; a client is in at most one cell, and a client whose segment or
\* stage is outside the fixed lists is in no cell but in pipelineClients.
C22_MatrixPartition ==
    \A seen \in KpiSeen :
        LET matrix == seen.snapshot.pipelineMatrix
            flat   == seen.snapshot.pipelineClients
        IN  /\ DOMAIN matrix = Range(segments)
            /\ \A segment \in Range(segments) : DOMAIN matrix[segment] = Range(stages)
            /\ \A segment \in Range(segments), stage \in Range(stages) :
                 LET cell == matrix[segment][stage]
                     here == {p \in seen.clients :
                                 SegmentOf(p) = segment /\ StageOf(p) = stage}
                 IN  /\ Range(cell.clients) \subseteq Range(flat)
                     /\ {c.id : c \in Range(cell.clients)} = {p.id : p \in here}
                     /\ \A c \in Range(cell.clients) :
                            c.segment = segment /\ c.stage = stage
                     /\ cell.count = Len(cell.clients)
                     /\ cell.count = Cardinality(here)
                     /\ cell.totalValue = SumOver(here, "estimated_contract_size")
            /\ Len(flat) = Cardinality(seen.clients)
            /\ \A p \in seen.clients :
                 /\ Cardinality(CellsOf(matrix, p)) <= 1
                 /\ \E i \in 1..Len(flat) : flat[i].id = p.id
                 /\ (SegmentOf(p) \notin Range(segments) \/ StageOf(p) \notin Range(stages))
                        => CellsOf(matrix, p) = {}

\* An aggregation of three clients: one of a populated cell, one without a
\* stage and one of a segment outside the list.
C22_MixedClients ==
    /\ kpi.given = "clients"
    /\ Len(kpi.pipelineClients) = 3
    /\ kpi.snapshot.pipelineMatrix["smb"]["pilot"].count = 1
    /\ kpi.snapshot.pipelineMatrix["mid_market"]["initial_meeting"].totalValue = 5
    /\ \E p \in Range(kpi.pipelineClients) : SegmentOf(p) = "enterprise"

\* C23: customerCount is the number of customer rows, totalARR the sum of
\* arr and totalContractValue the sum of contract_value over all of them, a
\* missing value counting as 0.
C23_CustomerTotals ==
    \A seen \in KpiSeen :
        /\ seen.snapshot.customerCount = Cardinality(seen.customers)
        /\ seen.snapshot.totalARR = SumOver(seen.customers, "arr")
        /\ seen.snapshot.totalContractValue = SumOver(seen.customers, "contract_value")

\* The customers [{arr: 100}, {arr: 50}, {}] aggregated.
C23_ThreeCustomers ==
    /\ kpi.given = "customers"
    /\ Len(kpi.customers) = 3
    /\ kpi.snapshot.customerCount = 3
    /\ kpi.snapshot.totalARR = 150
    /\ kpi.snapshot.totalContractValue = 70

-----------------------------------------------------------------------------
(* The Password Verifier on its own: verifyPassword of the edge functions  *)
(* and verifyPassword of the hash-password script on stored hashes of      *)
(* every shape.  A stored hash is the list of its parts between the "$".   *)

\* Buffer.from(s, "base64"): the bytes of the characters that are base64,
\* the others being skipped; it never throws.
BufferFrom(s) == IF atob(s).ok THEN atob(s).bytes ELSE <<>>

\* hash-password script: verifyPassword.  "rejects": the promise is rejected
\* (crypto.pbkdf2 throws on an iteration count below 1, inside the try);
\* "throws": crypto.timingSafeEqual throws on buffers of different lengths,
\* inside the callback, where nothing catches it.
verifyPasswordScript(password, storedHash) ==
    IF Len(storedHash) # 3 THEN "false"
    ELSE LET iterations == parseInt(storedHash[1])
             salt == BufferFrom(storedHash[2])
             storedHashBuffer == BufferFrom(storedHash[3])
             derivedKey == deriveBits(password, salt, iterations)
         IN  IF iterations = NaN THEN "false"
             ELSE IF ~derivedKey.ok THEN "rejects"
             ELSE IF Len(storedHashBuffer) # Len(derivedKey.bytes) THEN "throws"
             ELSE IF storedHashBuffer = derivedKey.bytes THEN "true" ELSE "false"

IterationParts == {"100000", "12", "12abc", "abc", "0"}

SaltParts == {"AQ==", "Ag==", "!!!"}

HashParts ==
    {"AQGgAAAAAAAAAAAAAAAAAAAAAAAAAAAAAAAAAAAAAAA=",
     "AgGgAAAAAAAAAAAAAAAAAAAAAAAAAAAAAAAAAAAAAAA=",
     "AQEMAAAAAAAAAAAAAAAAAAAAAAAAAAAAAAAAAAAAAAA=",
     "AQGgAAAAAAAAAAAAAAAAAA==", "!!!"}

\* Stored hashes of three parts, of two, of four and of one.
StoredHashes ==
    {<<i, s, h>> : i \in IterationParts, s \in SaltParts, h \in HashParts}
    \cup {<<"100000", "AQ==">>, <<"100000">>,
          <<"100000", "AQ==", "AQGgAAAAAAAAAAAAAAAAAAAAAAAAAAAAAAAAAAAAAAA=", "x">>}

\* Both verifiers applied to one password and one stored hash.
Verify(password, storedHash) ==
    /\ verified' = [given |-> TRUE, password |-> password, storedHash |-> storedHash,
                    edge |-> verifyPassword(password, storedHash),
                    script |-> verifyPasswordScript(password, storedHash)]
    /\ UNCHANGED << rateLimitsWrite, rateLimitsRead, rateLimits, limiterCfg, limiterLog,
                    now, investor_password, db, env, authSeen, last, kpi, inflight,
                    client, saving >>

InitVerify == InitWith({}, EmptyTables)

NextVerify ==
    \E password \in {"pw1", "pw2"}, storedHash \in StoredHashes :
        Verify(password, storedHash)

SpecVerify == InitVerify /\ [][NextVerify]_vars

\* Strings of decimal digits, and strings of base64.
IsInteger(s) == s \in {"100000", "12", "0"}

IsBase64(s) == s \in (SaltParts \cup HashParts) \ {"!!!"}

Malformed(storedHash) ==
    \/ Len(storedHash) # 3
    \/ ~IsInteger(storedHash[1])
    \/ ~IsBase64(storedHash[2])
    \/ ~IsBase64(storedHash[3])

\* C24 as claimed: on a stored hash that has not exactly 3 parts, whose
\* iteration part is no integer or whose salt or hash part is no base64,
\* verify returns false and does not throw.
C24_MalformedIsFalse ==
    (verified.given /\ Malformed(verified.storedHash))
        => verified.edge = FALSE /\ verified.script = "false"

-----------------------------------------------------------------------------
(* Requests handled at once by one running instance of data-write.  The    *)
(* runtime runs a handler without interruption up to its next await; the   *)
(* handler's first await follows the limiter and the credential header     *)
(* check, so a request is accepted, runs up to that await, and is          *)
(* finished later, other requests running in between.                      *)

MaxFlight == 3          \* requests one instance is followed through

rateLimitsGet_Earlier(live, earlier) == earlier

\* rateLimits.get(ip) reads the map as it is when checkRateLimit runs, not
\* as it was when the request was accepted.
rateLimitsGet(live, earlier) == live

\* A request of the key "unknown", one of another key, and a pre-flight.
FlightRequests ==
    LET body == Body("delete", "customer", "r1", FALSE, <<>>, FALSE, <<>>)
    IN  {Request("POST", NONE, NONE, NONE, "pw1", body),
         Request("POST", NONE, "10.0.0.1", NONE, "pw1", body),
         Request("OPTIONS", NONE, NONE, NONE, "pw1", body)}

Flight(req, pc, seen, allowed, window, status) ==
    [req |-> req, pc |-> pc, seen |-> seen, allowed |-> allowed, window |-> window,
     status |-> status]

\* The runtime accepts a request; its handler has not run yet.
Accept(req) ==
    /\ Len(inflight) < MaxFlight
    /\ inflight' = Append(inflight, Flight(req, "accepted", rateLimitsWrite, FALSE, 0, 0))
    /\ UNCHANGED << rateLimitsWrite, rateLimitsRead, rateLimits, limiterCfg, limiterLog,
                    now, investor_password, db, env, authSeen, last, kpi, verified,
                    client, saving >>

\* The handler runs from its start to its first await (authenticateAdmin)
\* or to the response it returns before it.
Begin(i) ==
    LET f == inflight[i]
        key == ClientKey(f.req)
        out == dataWrite(f.req, rateLimitsGet(rateLimitsWrite, f.seen), now,
                         investor_password, db["customer"], env.ALLOWED_ORIGINS, "none")
        returned == \/ IsPreflight(f.req)
                    \/ out.resp.status = 429
                    \/ ~Truthy(f.req.adminPassword)
        allowed == ~IsPreflight(f.req) /\ out.resp.status # 429
        window == IF IsPreflight(f.req) THEN 0 ELSE out.map[key].resetTime
    IN  /\ f.pc = "accepted"
        /\ rateLimitsWrite' = out.map
        /\ inflight' = [inflight EXCEPT ![i] =
                          Flight(f.req, IF returned THEN "done" ELSE "awaiting", f.seen,
                                 allowed, window,
                                 IF returned THEN out.resp.status ELSE 0)]
        /\ UNCHANGED << rateLimitsRead, rateLimits, limiterCfg, limiterLog, now,
                        investor_password, db, env, authSeen, last, kpi, verified,
                        client, saving >>

\* The handler resumes after the limiter and runs to its response.
Finish(i) ==
    LET f == inflight[i]
        out == dataWrite(f.req, EmptyMap, now, investor_password, db["customer"],
                         env.ALLOWED_ORIGINS, "none")
    IN  /\ f.pc = "awaiting"
        /\ inflight' = [inflight EXCEPT ![i].pc = "done", ![i].status = out.resp.status]
        /\ db' = [db EXCEPT !["customer"] = out.table]
        /\ UNCHANGED << rateLimitsWrite, rateLimitsRead, rateLimits, limiterCfg,
                        limiterLog, now, investor_password, env, authSeen, last, kpi,
                        verified, client, saving >>

InitFlight == InitLimited

NextFlight ==
    \/ \E req \in FlightRequests : Accept(req)
    \/ \E i \in DOMAIN inflight : Begin(i)
    \/ \E i \in DOMAIN inflight : Finish(i)
    \/ Tick(WINDOW_MS + 1)

SpecFlight == InitFlight /\ [][NextFlight]_vars

\* The requests of a key that passed the limiter in the window that ends at
\* resetTime, and the count the key's entry began that window with.
PassedIn(key, resetTime) ==
    {i \in DOMAIN inflight :
        /\ inflight[i].allowed
        /\ ClientKey(inflight[i].req) = key
        /\ inflight[i].window = resetTime}

CountAtStart(key, resetTime) ==
    IF resetTime = WINDOW_MS /\ key \in CallerKeys THEN WRITE_MAX_REQUESTS - 1 ELSE 0

\* C25: however the requests of one instance interleave, the requests of a
\* key that pass the limiter in one window never exceed maxRequests, and
\* the count of the key's entry is the number of requests that passed in
\* its window: no increment is lost.
C25_AtomicCheck ==
    \A key \in DOMAIN rateLimitsWrite :
        /\ \A i \in DOMAIN inflight :
              LET resetTime == inflight[i].window
              IN  CountAtStart(key, resetTime) + Cardinality(PassedIn(key, resetTime))
                      <= WRITE_MAX_REQUESTS
        /\ LET resetTime == rateLimitsWrite[key].resetTime
           IN  rateLimitsWrite[key].count =
                   CountAtStart(key, resetTime) + Cardinality(PassedIn(key, resetTime))

\* Two requests of one key were accepted before either ran, the key having
\* one request of its budget left: one passed and awaits the credential
\* check, the other was answered 429 meanwhile.
C25_Overlapping ==
    \E i, j \in DOMAIN inflight :
        /\ i # j
        /\ ClientKey(inflight[i].req) = ClientKey(inflight[j].req)
        /\ inflight[i].seen = inflight[j].seen
        /\ inflight[i].pc = "awaiting" /\ inflight[i].allowed
        /\ inflight[j].pc = "done" /\ inflight[j].status = 429

-----------------------------------------------------------------------------
(* The dashboard saving its list of pipeline notes (handleSavePipelineNotes). *)
(* saving: [pc, kpis, currentNotes, tempPipelineNotes, d, u, issued,       *)
(* before]; kpis: kpis.pipelineNotes as last fetched; d, u: the positions  *)
(* of the delete loop and of the create-or-update loop; issued: the        *)
(* operations awaited so far, [verb, id, data, ok]; before: the rows of    *)
(* pipeline_note when the save began.                                      *)

MaxNotes == 2           \* notes in the list being saved

NotePool ==
    {[id |-> "n1", content |-> "a", order |-> 0],
     [id |-> "n1", content |-> "x", order |-> 0],
     [id |-> "n2", content |-> "b", order |-> 1],
     [id |-> "n3", content |-> "", order |-> 1]}

\* The lists the editor can hold: no id twice.
NoteLists ==
    {l \in Lists(NotePool, MaxNotes) :
        \A i, j \in 1..Len(l) : l[i].id = l[j].id => i = j}

StoredNotes ==
    {{}, {[id |-> "n1", content |-> "a", order |-> 0]},
     {[id |-> "n1", content |-> "a", order |-> 0],
      [id |-> "n2", content |-> "b", order |-> 1]}}

\* deletePipelineNote, updatePipelineNote and createPipelineNote: one
\* single-row operation on pipeline_note each, which throws when storage
\* fails, when the row to update is absent or when the id to create exists.
pipelineNoteOperation(op, rows, fail) ==
    LET call == CASE op.verb = "delete"
                       -> Call("delete", "pipeline_note", <<>>, [id |-> op.id], NONE)
                  [] op.verb = "update"
                       -> Call("update", "pipeline_note", op.data, [id |-> op.id], NONE)
                  [] OTHER
                       -> Call("insert", "pipeline_note", op.data, <<>>, NONE)
        out == Execute(call, rows, fail)
        thrown == out.error \/ (op.verb = "update" /\ out.rows = <<>>)
    IN  [ok |-> ~thrown, table |-> IF thrown THEN rows ELSE out.table]

NoOperation == [verb |-> "none", id |-> NONE, data |-> <<>>, d |-> 0, u |-> 0]

NextOperation_UpdatesFirst(currentNotes, tempPipelineNotes, d, u) ==
    LET currentIds == {currentNotes[k].id : k \in 1..Len(currentNotes)}
        tempIds == {tempPipelineNotes[k].id : k \in 1..Len(tempPipelineNotes)}
        removed == {k \in d..Len(currentNotes) : currentNotes[k].id \notin tempIds}
        first == CHOOSE k \in removed : \A other \in removed : k <= other
        note == tempPipelineNotes[u]
    IN  IF u <= Len(tempPipelineNotes)
        THEN [verb |-> IF note.id \in currentIds THEN "update" ELSE "create",
              id |-> note.id,
              data |-> [id |-> note.id, content |-> note.content, order |-> u - 1],
              d |-> d, u |-> u + 1]
        ELSE IF removed # {}
        THEN [verb |-> "delete", id |-> currentNotes[first].id, data |-> <<>>,
              d |-> first + 1, u |-> u]
        ELSE NoOperation

\* The operation handleSavePipelineNotes awaits next: the delete of the
\* next note of currentNotes that tempPipelineNotes has not, then the
\* update or create of the next note of tempPipelineNotes.
NextOperation(currentNotes, tempPipelineNotes, d, u) ==
    LET currentIds == {currentNotes[k].id : k \in 1..Len(currentNotes)}
        tempIds == {tempPipelineNotes[k].id : k \in 1..Len(tempPipelineNotes)}
        removed == {k \in d..Len(currentNotes) : currentNotes[k].id \notin tempIds}
        first == CHOOSE k \in removed : \A other \in removed : k <= other
        note == tempPipelineNotes[u]
    IN  IF removed # {}
        THEN [verb |-> "delete", id |-> currentNotes[first].id, data |-> <<>>,
              d |-> first + 1, u |-> u]
        ELSE IF u <= Len(tempPipelineNotes)
        THEN [verb |-> IF note.id \in currentIds THEN "update" ELSE "create",
              id |-> note.id,
              data |-> [id |-> note.id, content |-> note.content, order |-> u - 1],
              d |-> Len(currentNotes) + 1, u |-> u + 1]
        ELSE NoOperation

\* fetchKPIs: pipeline_note ordered by "order".
FetchedNotes(rows) == SortBy(rows, "order", TRUE)

\* The user saves the list of the editor.
HandleSave(tempPipelineNotes) ==
    /\ saving.pc \in {"idle", "saved", "failed"}
    /\ saving' = [pc |-> "running", kpis |-> saving.kpis, currentNotes |-> saving.kpis,
                  tempPipelineNotes |-> tempPipelineNotes, d |-> 1, u |-> 1,
                  issued |-> <<>>, before |-> db["pipeline_note"]]
    /\ UNCHANGED << rateLimitsWrite, rateLimitsRead, rateLimits, limiterCfg, limiterLog,
                    now, investor_password, db, env, authSeen, last, kpi, verified,
                    inflight, client >>

\* The next operation is awaited and succeeds or throws; after the last one
\* the notes are fetched again, after a throw they are not.
SaveStep(fail) ==
    LET op == NextOperation(saving.currentNotes, saving.tempPipelineNotes,
                            saving.d, saving.u)
        out == pipelineNoteOperation(op, db["pipeline_note"], fail)
        done == [verb |-> op.verb, id |-> op.id, data |-> op.data, ok |-> out.ok]
    IN  /\ saving.pc = "running"
        /\ IF op.verb = "none"
           THEN /\ ~fail
                /\ saving' = [saving EXCEPT !.pc = "saved",
                                            !.kpis = FetchedNotes(db["pipeline_note"])]
                /\ db' = db
           ELSE /\ saving' = [saving EXCEPT !.pc = IF out.ok THEN "running" ELSE "failed",
                                            !.d = op.d, !.u = op.u,
                                            !.issued = Append(@, done)]
                /\ db' = [db EXCEPT !["pipeline_note"] = out.table]
        /\ UNCHANGED << rateLimitsWrite, rateLimitsRead, rateLimits, limiterCfg,
                        limiterLog, now, investor_password, env, authSeen, last, kpi,
                        verified, inflight, client >>

InitSave ==
    \E notes \in StoredNotes :
        /\ rateLimitsWrite = EmptyMap
        /\ rateLimitsRead = EmptyMap
        /\ rateLimits = EmptyMap
        /\ limiterCfg = [maxRequests |-> 1, windowMs |-> 1000]
        /\ limiterLog = NoCall
        /\ now = 0
        /\ investor_password = {Record("u1", "pw1", HashOf("pw1"), TRUE)}
        /\ db = [EmptyTables EXCEPT !["pipeline_note"] = notes]
        /\ env = [ALLOWED_ORIGINS |-> <<>>, ALLOWED_DOMAINS |-> <<>>]
        /\ authSeen = EmptyMap
        /\ last = Handled("none", NoRequest, NoResponse, "none", {})
        /\ kpi = NoKpi
        /\ verified = NoVerify
        /\ inflight = NoFlight
        /\ client = NoClient
        /\ saving = [pc |-> "idle", kpis |-> FetchedNotes(notes)]

NextSave ==
    \/ \E tempPipelineNotes \in NoteLists : HandleSave(tempPipelineNotes)
    \/ \E fail \in BOOLEAN : SaveStep(fail)

SpecSave == InitSave /\ [][NextSave]_vars

\* The rows of pipeline_note after the operations that succeeded, in the
\* order they were issued.
RECURSIVE Replay(_, _)
Replay(rows, ops) ==
    IF ops = <<>> THEN rows
    ELSE LET op == Head(ops)
             others == {r \in rows : r.id # op.id}
             after == CASE ~op.ok              -> rows
                        [] op.verb = "delete"  -> others
                        [] OTHER               -> others \cup {op.data}
         IN  Replay(after, Tail(ops))

\* The indexes of the operations issued that are deletes, and that are not.
Deletes(ops) == {a \in 1..Len(ops) : ops[a].verb = "delete"}

Upserts(ops) == {a \in 1..Len(ops) : ops[a].verb # "delete"}

\* C26: a save issues every delete of a removed note before any create or
\* update, then one update (id among the current notes) or create (new
\* id) per note of the list, in list order, with order its index; after
\* an operation that failed no operation is issued, and the operations
\* that succeeded stay applied: nothing is rolled back.
C26_SequenceOfSingleRowOperations ==
    saving.pc # "idle" =>
        LET ops == saving.issued
            cur == saving.currentNotes
            temp == saving.tempPipelineNotes
            currentIds == {cur[k].id : k \in 1..Len(cur)}
            tempIds == {temp[k].id : k \in 1..Len(temp)}
            removed == SelectSeq(cur, LAMBDA n : n.id \notin tempIds)
            nd == Cardinality(Deletes(ops))
            nu == Cardinality(Upserts(ops))
        IN  /\ \A a \in Deletes(ops), b \in Upserts(ops) : a < b
            /\ nd <= Len(removed)
            /\ \A a \in Deletes(ops) : ops[a].id = removed[a].id
            /\ nu > 0 => nd = Len(removed)
            /\ nu <= Len(temp)
            /\ \A b \in Upserts(ops) :
                 LET k == b - nd
                 IN  /\ ops[b].id = temp[k].id
                     /\ ops[b].data = [id |-> temp[k].id, content |-> temp[k].content,
                                       order |-> k - 1]
                     /\ ops[b].verb = IF temp[k].id \in currentIds THEN "update"
                                      ELSE "create"
            /\ \A a \in 1..(Len(ops) - 1) : ops[a].ok
            /\ saving.pc = "failed" <=> (ops # <<>> /\ ~ops[Len(ops)].ok)
            /\ saving.pc = "saved" => nd = Len(removed) /\ nu = Len(temp)
            /\ db["pipeline_note"] = Replay(saving.before, ops)

\* A save that deleted a note and updated another, and failed on a create:
\* the stored notes are neither those before the save nor those of the list.
C26_MixedState ==
    /\ saving.pc = "failed"
    /\ Len(saving.issued) = 3
    /\ saving.issued[1].verb = "delete"
    /\ saving.issued[2].verb = "update"
    /\ saving.issued[3].verb = "create"
    /\ db["pipeline_note"] # saving.before
    /\ Cardinality(db["pipeline_note"]) = 1

-----------------------------------------------------------------------------
(* The browser: the api.js module, sessionStorage and InvestorPasswordGate. *)
(* client: [open, adminPassword, sessionStorage, isAuthenticated,          *)
(* isArtemisManagement, isChecking, pending, network, event]               *)
(* adminPassword: the module variable, NONE for null; sessionStorage: the  *)
(* item "investorAuth", [has, item]; pending: the password of the          *)
(* adminAuth call awaiting its answer, NONE when there is none; network:   *)
(* the requests sent, [fn, credential]; event: what happened last.         *)

MaxSent == 3            \* requests the page sends

NoItem == [has |-> FALSE, item |-> <<>>]

\* initPasswordFromSession: JSON.parse of the item, and its password if it
\* has one.
initPasswordFromSession(sessionStorage) ==
    IF sessionStorage.has /\ "password" \in DOMAIN sessionStorage.item
                          /\ Truthy(sessionStorage.item["password"])
    THEN sessionStorage.item["password"]
    ELSE NONE

\* handlePasswordSubmit: JSON.stringify({isArtemisManagement, authenticated: true})
StoredAuth(isArtemisManagement) ==
    [has |-> TRUE,
     item |-> [isArtemisManagement |-> isArtemisManagement, authenticated |-> TRUE]]

adminAuthStores_Always(held, password, answer) == password

\* adminAuth: the password the module holds after the answer; an answer
\* that is not ok throws before setAdminPassword.
adminAuthStores(held, password, answer) ==
    IF answer.ok /\ answer.authenticated THEN password ELSE held

\* callEdgeFunction with requiresAuth: what it throws before fetch, if it does.
RequiresAuth(adminPassword) ==
    IF ~Truthy(adminPassword) THEN "Authentication required. Please log in again."
    ELSE NONE

Event(kind, authenticated, thrown) ==
    [kind |-> kind, authenticated |-> authenticated, thrown |-> thrown]

\* What fetch gives adminAuth: the response of admin-auth, with and without
\* a storage failure, a network error, and a 200 that says authenticated: false.
Answers(password) ==
    LET Of(fail) ==
            LET resp == adminAuth(AuthPost(NONE, password), investor_password,
                                  env.ALLOWED_DOMAINS, fail).resp
            IN  [ok |-> resp.status = 200, authenticated |-> resp.authenticated,
                 isArtemisManagement |-> resp.isArtemisManagement]
    IN  {Of("none"), Of("lookup"),
         [ok |-> FALSE, authenticated |-> FALSE, isArtemisManagement |-> FALSE],
         [ok |-> TRUE, authenticated |-> FALSE, isArtemisManagement |-> FALSE]}

StaysOutside ==
    UNCHANGED << rateLimitsWrite, rateLimitsRead, rateLimits, limiterCfg, limiterLog,
                 now, investor_password, db, env, authSeen, last, kpi, verified,
                 inflight, saving >>

\* The page is loaded or reloaded: the module is initialised and the gate
\* mounts; an answer still awaited is dropped.
Load ==
    /\ client' = [open |-> TRUE,
                  adminPassword |-> initPasswordFromSession(client.sessionStorage),
                  sessionStorage |-> client.sessionStorage,
                  isAuthenticated |-> client.sessionStorage.has,
                  isArtemisManagement |->
                      IF client.sessionStorage.has
                      THEN client.sessionStorage.item["isArtemisManagement"]
                      ELSE FALSE,
                  isChecking |-> FALSE, pending |-> NONE, network |-> client.network,
                  event |-> Event("load", FALSE, NONE)]
    /\ StaysOutside

\* handlePasswordSubmit up to the fetch of adminAuth.
Submit(password) ==
    /\ client.open /\ ~client.isAuthenticated /\ client.pending = NONE
    /\ IF ~Truthy(password)
       THEN client' = [client EXCEPT !.event = Event("submit", FALSE, "Please enter a password")]
       ELSE /\ Len(client.network) < MaxSent
            /\ client' = [client EXCEPT
                            !.pending = password,
                            !.network = Append(@, [fn |-> "admin-auth", credential |-> NONE]),
                            !.event = Event("submit", FALSE, NONE)]
    /\ StaysOutside

\* adminAuth and handlePasswordSubmit from the answer of the fetch on.
Answer(answer) ==
    LET granted == answer.ok /\ answer.authenticated
    IN  /\ client.open /\ client.pending # NONE
        /\ client' = [client EXCEPT
                        !.adminPassword = adminAuthStores(@, client.pending, answer),
                        !.isAuthenticated = IF granted THEN TRUE ELSE @,
                        !.isArtemisManagement =
                            IF granted THEN answer.isArtemisManagement ELSE @,
                        !.sessionStorage =
                            IF granted THEN StoredAuth(answer.isArtemisManagement) ELSE @,
                        !.pending = NONE,
                        !.event = Event("answer", granted,
                                        IF answer.ok THEN NONE ELSE "Authentication failed")]
        /\ StaysOutside

\* logout(): clearAdminPassword.
Logout ==
    /\ client.open
    /\ client' = [client EXCEPT !.adminPassword = NONE, !.sessionStorage = NoItem,
                                !.event = Event("logout", FALSE, NONE)]
    /\ StaysOutside

\* The dashboard the gate renders calls the API (callEdgeFunction with
\* requiresAuth).
ApiCall ==
    LET thrown == RequiresAuth(client.adminPassword)
    IN  /\ client.open /\ ~client.isChecking /\ client.isAuthenticated
        /\ thrown = NONE => Len(client.network) < MaxSent
        /\ client' = [client EXCEPT
                        !.network = IF thrown = NONE
                                    THEN Append(@, [fn |-> "data-read",
                                                    credential |-> client.adminPassword])
                                    ELSE @,
                        !.event = Event("call", FALSE, thrown)]
        /\ StaysOutside

InitClient ==
    /\ rateLimitsWrite = EmptyMap
    /\ rateLimitsRead = EmptyMap
    /\ rateLimits = EmptyMap
    /\ limiterCfg = [maxRequests |-> 1, windowMs |-> 1000]
    /\ limiterLog = NoCall
    /\ now = 0
    /\ investor_password = {Record("u1", "pw1", NoHash, TRUE),
                            Record("u2", "pw2", NoHash, FALSE)}
    /\ db = EmptyTables
    /\ env = [ALLOWED_ORIGINS |-> <<>>, ALLOWED_DOMAINS |-> <<>>]
    /\ authSeen = EmptyMap
    /\ last = Handled("none", NoRequest, NoResponse, "none", {})
    /\ kpi = NoKpi
    /\ verified = NoVerify
    /\ inflight = NoFlight
    /\ saving = NoSave
    /\ client = [open |-> FALSE, adminPassword |-> NONE, sessionStorage |-> NoItem,
                 isAuthenticated |-> FALSE, isArtemisManagement |-> FALSE,
                 isChecking |-> TRUE, pending |-> NONE, network |-> <<>>,
                 event |-> Event("none", FALSE, NONE)]

NextClient ==
    \/ Load
    \/ \E password \in {"", "pw1", "pw2", "bad"} : Submit(password)
    \/ \E answer \in Answers(client.pending) : Answer(answer)
    \/ Logout
    \/ ApiCall

SpecClient == InitClient /\ [][NextClient]_vars

\* C27 as claimed: whenever the gate renders the dashboard as authenticated
\* the API service holds an admin password.
C27_CredentialHeld ==
    (client.open /\ ~client.isChecking /\ client.isAuthenticated)
        => client.adminPassword # NONE

\* C30: while the module holds no password (after clearAdminPassword or
\* logout) an API call that requires authentication throws "Authentication
\* required" and sends no request; the module comes to hold a password
\* only by an adminAuth call answered authenticated: true; an adminAuth
\* call that fails or is answered authenticated: false leaves the held
\* password as it is; logout leaves no password and no stored session.
C30_SessionLifecycle ==
    [][ LET e == client'.event IN
        /\ (e.kind = "call" /\ client.adminPassword = NONE)
              => /\ e.thrown = "Authentication required. Please log in again."
                 /\ client'.network = client.network
                 /\ client'.adminPassword = NONE
        /\ (e.kind = "call" /\ client.adminPassword # NONE)
              => /\ e.thrown = NONE
                 /\ client'.network =
                        Append(client.network,
                               [fn |-> "data-read", credential |-> client.adminPassword])
        /\ (client.adminPassword = NONE /\ client'.adminPassword # NONE)
              => /\ e.kind = "answer" /\ e.authenticated
                 /\ client'.adminPassword = client.pending
        /\ (e.kind = "answer" /\ ~e.authenticated)
              => client'.adminPassword = client.adminPassword
        /\ e.kind = "logout"
              => client'.adminPassword = NONE /\ ~client'.sessionStorage.has
      ]_vars

\* After a login and a logout the dashboard, still rendered, called the
\* API: the call threw and the only request sent is the login's.
C30_ThrownAfterLogout ==
    /\ client.open /\ client.isAuthenticated
    /\ ~client.sessionStorage.has
    /\ client.adminPassword = NONE
    /\ client.event.kind = "call"
    /\ client.event.thrown = "Authentication required. Please log in again."
    /\ client.network = <<[fn |-> "admin-auth", credential |-> NONE]>>

-----------------------------------------------------------------------------
(* The frame of the Rate Limiter, and the slot a request takes.            *)

\* C28: a rejected call leaves the entry of its key as it was; a call
\* changes or creates the entry of no other key; no call removes an entry.
C28_LimiterFrame ==
    [][ /\ DOMAIN rateLimits \subseteq DOMAIN rateLimits'
        /\ limiterLog' = limiterLog => rateLimits' = rateLimits
        /\ limiterLog' # limiterLog =>
             LET key == limiterLog'.key
             IN  /\ DOMAIN rateLimits' = DOMAIN rateLimits \cup {key}
                 /\ \A other \in DOMAIN rateLimits' \ {key} :
                        rateLimits'[other] = rateLimits[other]
                 /\ ~limiterLog'.allowed =>
                        key \in DOMAIN rateLimits /\ rateLimits'[key] = rateLimits[key]
      ]_vars

\* A call was rejected at a time after the one its key's window began at,
\* while another key has an entry.
C28_RejectedLater ==
    /\ limiterLog.key # NONE
    /\ ~limiterLog.allowed
    /\ limiterLog.at > limiterLog.seen[limiterLog.key].start
    /\ Cardinality(DOMAIN rateLimits) = 2

\* The limiter map of the endpoint the last request went to.
MapOf(endpoint, write, read) == IF endpoint = "write" THEN write ELSE read

\* C29: on Read and Write a request that is no pre-flight and is not
\* rejected by the limiter takes one slot of its caller key's budget,
\* whatever it is answered (200, 400, 401, 404 or 500): the count of the
\* key's entry grows by one, or a window begins with count 1; a pre-flight
\* and a rejected request take none.
C29_SlotBeforeCredential ==
    [][ (last'.endpoint \in {"read", "write"}
           /\ (last' # last \/ rateLimitsWrite' # rateLimitsWrite
                            \/ rateLimitsRead' # rateLimitsRead)) =>
          LET map == MapOf(last'.endpoint, rateLimitsWrite, rateLimitsRead)
              after == MapOf(last'.endpoint, rateLimitsWrite', rateLimitsRead')
              key == CallerKey(last'.req)
              max == IF last'.endpoint = "write" THEN WRITE_MAX_REQUESTS
                     ELSE READ_MAX_REQUESTS
          IN  IF last'.req.method = "OPTIONS" \/ last'.resp.status = 429
              THEN after = map
              ELSE /\ "ratelimit" \in last'.resp.reached
                   /\ key \in DOMAIN after
                   /\ after[key] =
                        IF key \in DOMAIN map /\ now <= map[key].resetTime
                        THEN [count |-> map[key].count + 1,
                              resetTime |-> map[key].resetTime]
                        ELSE [count |-> 1, resetTime |-> now + WINDOW_MS]
                   /\ after[key].count <= max
      ]_vars

\* A request answered 401 took the last slot of the budget of "unknown".
C29_UnauthorizedTookLastSlot ==
    /\ last.endpoint = "write"
    /\ last.resp.status = 401
    /\ CallerKey(last.req) = "unknown"
    /\ rateLimitsWrite["unknown"].count = WRITE_MAX_REQUESTS

====
